---- MODULE Spec2Model ----
(***************************************************************************)
(* VAM printing controller (src/unnamed/part_000, the React component App  *)
(* with its tabs and the ProjectionView receiver).                         *)
(*                                                                         *)
(* The controller is a single-threaded event loop.  Every action below is  *)
(* one task of that loop: a button handler, a timer callback, a promise    *)
(* continuation or a browser event listener, run to completion.  React     *)
(* state read inside a handler is the state of the render that created     *)
(* the handler: handlers invoked from the UI see the current state, while  *)
(* listeners and timer callbacks registered earlier keep the stopPrint     *)
(* closure (writeCharacteristic, isSimulationMode) of the render in which  *)
(* they were registered.                                                   *)
(*                                                                         *)
(* A handler is written as a function from a state record to a state       *)
(* record (Cur is the current state as a record, Commit assigns it), so    *)
(* that a handler calling another handler is function composition.         *)
(***************************************************************************)
EXTENDS Integers, Sequences, FiniteSets, TLC

\* ------------------------------------------------------------------ bounds
MaxImages == 2        \* images in an ImageSet handled by the codec and slicing models
SessionImages == 1    \* images in the job a print session loads
MaxConn == 2          \* presentation connections created in one run
MaxPairings == 1      \* gattserverdisconnected listeners registered in one run
MaxPendingWrites == 1 \* print-command writes awaited at the same time
MaxTimers == 2        \* timers pending at the same time
MaxSlices == 2        \* slicing submissions in one run

\* ------------------------------------------------------- program constants
PadWidth == 4                 \* String(i).padStart(4, '0')
TestFrameDuration == 33       \* printMode === 'time-per-frame' ? timePerFrame : 33
DefaultSimulationDelay == 100 \* let delay = 100; // default
DefaultTimePerFrame == 100    \* useState(100)

PrintModes == {"velocity", "time-per-frame", "hops"}

\* --------------------------------------------------------------- rationals
\* JavaScript numbers are modelled as exact rationals <<numerator, denominator>>
\* in lowest terms with a positive denominator.
RECURSIVE Gcd(_, _)
Gcd(a, b) == IF b = 0 THEN a ELSE Gcd(b, a % b)

Abs(x) == IF x < 0 THEN -x ELSE x

\* <<1, 0>> and <<-1, 0>> are the infinities, <<0, 0>> is NaN
Rat(n, d) ==
    LET g == Gcd(Abs(n), Abs(d))
        sgn == IF d < 0 THEN -1 ELSE 1
    IN  IF g = 0 THEN << 0, 0 >> ELSE << (sgn * n) \div g, (sgn * d) \div g >>

RatOfInt(n) == << n, 1 >>
RatMul(x, y) == Rat(x[1] * y[1], x[2] * y[2])
RatDiv(x, y) == Rat(x[1] * y[2], x[2] * y[1])
\* x + y; an infinity plus the opposite infinity, or NaN plus anything, is NaN
RatAdd(x, y) ==
    IF x[2] = 0 \/ y[2] = 0
    THEN (IF x = y \/ y[2] # 0 THEN x ELSE IF x[2] # 0 THEN y ELSE << 0, 0 >>)
    ELSE Rat(x[1] * y[2] + y[1] * x[2], x[2] * y[2])
RatNeg(x) == << -x[1], x[2] >>
NaN == << 0, 0 >>

\* --------------------------------------------------------- parameter data
DefaultSlicingParams ==
    [voxelSize |-> 1, numProjections |-> 120, rotX |-> 0, rotY |-> 0, rotZ |-> 0]

DefaultProjectionParams ==
    [totalRotation |-> 360, rotationSpeed |-> 30, pauseAfterRotation |-> 0,
     verticalSteps |-> 0, verticalDelay |-> 1000, verticalDirection |-> 1]

\* the four members are numbers the operator can set to any value, NaN included
DefaultAlignmentParams ==
    [scale |-> RatOfInt(100), translateX |-> RatOfInt(0), translateY |-> RatOfInt(0),
     contrast |-> RatOfInt(100)]

\* useState<SlicingStats>({ time: null, count: null }); -1 is null
NoStats == [time |-> -1, count |-> -1]

\* A member of a parsed JSON object: a number, null, a string, or no member.
JsonNumber(v) == [t |-> "number", v |-> v]
JsonOther(t) == [t |-> t, v |-> RatOfInt(0)]
\* JSON.stringify(number): NaN and the infinities are written as null
JsonOfNumber(v) == IF v[2] = 0 THEN JsonOther("null") ELSE JsonNumber(v)
\* The item under CALIBRATION_OFFSET_KEY: kind is "absent" (getItem gives
\* null), "empty" (the empty string), "malformed" (not JSON), "null" (the JSON
\* text null), "scalar" (a JSON number, string or boolean) or "object".
StoredItem(kind, x, y) == [kind |-> kind, x |-> x, y |-> y]
NoItem == StoredItem("absent", JsonOther("missing"), JsonOther("missing"))
\* useState(false), useRef({ x: 0, y: 0 }) of SlicePreview
NoDrag == [isDragging |-> FALSE, initialTranslate |-> << RatOfInt(0), RatOfInt(0) >>]

\* ------------------------------------------------- device command encoding
degreesPerStep == << 9, 80 >>   \* const degreesPerStep = 0.1125

RECURSIVE Pow2(_)
Pow2(k) == IF k = 0 THEN 1 ELSE 2 * Pow2(k - 1)

RECURSIVE FloorLog2(_, _, _)
\* the e with 2^e <= a/d < 2^(e+1), searched from e upwards or downwards
FloorLog2(a, d, e) ==
    IF e >= 0
    THEN IF a < d * Pow2(e) /\ e = 0 THEN FloorLog2(a, d, -1)
         ELSE IF a >= d * Pow2(e + 1) THEN FloorLog2(a, d, e + 1) ELSE e
    ELSE IF a * Pow2(-e) >= d THEN e ELSE FloorLog2(a, d, e - 1)

RECURSIVE MantissaBits(_, _, _, _)
\* k more binary digits of (m + r/d): <<mantissa, remainder>>
MantissaBits(m, r, d, k) ==
    IF k = 0 THEN << m, r >>
    ELSE IF 2 * r >= d THEN MantissaBits(2 * m + 1, 2 * r - d, d, k - 1)
    ELSE MantissaBits(2 * m, 2 * r, d, k - 1)

\* Storing a number into a Float32Array element: round to the nearest value
\* with a 24-bit significand, ties to even (normal range only).
ToFloat32(x) ==
    IF x[2] = 0 \/ x[1] = 0 THEN x
    ELSE LET a == Abs(x[1])
             e == FloorLog2(a, x[2], 0)
             n == IF e >= 0 THEN a ELSE a * Pow2(-e)
             d == IF e >= 0 THEN x[2] * Pow2(e) ELSE x[2]
             mr == MantissaBits(1, n - d, d, 23)
             m == IF 2 * mr[2] > d THEN mr[1] + 1
                  ELSE IF 2 * mr[2] = d THEN mr[1] + (mr[1] % 2)
                  ELSE mr[1]
             sgn == IF x[1] < 0 THEN -1 ELSE 1
         IN  IF e >= 23 THEN RatOfInt(sgn * m * Pow2(e - 23))
             ELSE Rat(sgn * m, Pow2(23 - e))

\* The Float32Array(6) written by handlePrint.
PrintCommand_swapped(pp) ==
    LET tomographicDelayMs ==
            IF pp.rotationSpeed > 0
            THEN RatMul(RatDiv(degreesPerStep, RatOfInt(pp.rotationSpeed)), RatOfInt(1000))
            ELSE RatOfInt(0)
        pauseInSeconds == RatDiv(RatOfInt(pp.pauseAfterRotation), RatOfInt(1000))
        command == << RatOfInt(pp.totalRotation), pauseInSeconds, tomographicDelayMs,
                      RatOfInt(pp.verticalSteps), RatOfInt(pp.verticalDelay),
                      RatOfInt(pp.verticalDirection) >>
    IN  [i \in 1..6 |-> ToFloat32(command[i])]

PrintCommand_multiplied(pp) ==
    LET tomographicDelayMs ==
            IF pp.rotationSpeed > 0
            THEN RatMul(RatMul(degreesPerStep, RatOfInt(pp.rotationSpeed)), RatOfInt(1000))
            ELSE RatOfInt(0)
        pauseInSeconds == RatDiv(RatOfInt(pp.pauseAfterRotation), RatOfInt(1000))
        command == << RatOfInt(pp.totalRotation), tomographicDelayMs, pauseInSeconds,
                      RatOfInt(pp.verticalSteps), RatOfInt(pp.verticalDelay),
                      RatOfInt(pp.verticalDirection) >>
    IN  [i \in 1..6 |-> ToFloat32(command[i])]

PrintCommand(pp) ==
    LET tomographicDelayMs ==
            IF pp.rotationSpeed > 0
            THEN RatMul(RatDiv(degreesPerStep, RatOfInt(pp.rotationSpeed)), RatOfInt(1000))
            ELSE RatOfInt(0)
        pauseInSeconds == RatDiv(RatOfInt(pp.pauseAfterRotation), RatOfInt(1000))
        command == << RatOfInt(pp.totalRotation), tomographicDelayMs, pauseInSeconds,
                      RatOfInt(pp.verticalSteps), RatOfInt(pp.verticalDelay),
                      RatOfInt(pp.verticalDirection) >>
    IN  [i \in 1..6 |-> ToFloat32(command[i])]

\* new Float32Array(6).fill(0)
StopCommand == [i \in 1..6 |-> ToFloat32(RatOfInt(0))]

\* ------------------------------------------------------ projection messages
ClearImage == [type |-> "CLEAR_IMAGE"]
UpdateImage(imageUrl) == [type |-> "UPDATE_IMAGE", imageUrl |-> imageUrl]
ToggleCalibration(show) == [type |-> "TOGGLE_CALIBRATION", show |-> show]
UpdateAlignment(params) ==
    [type |-> "UPDATE_ALIGNMENT",
     params |-> [member \in DOMAIN params |-> JsonOfNumber(params[member])]]

\* ------------------------------------------------------ the projection page
\* A string or boolean member of a parsed JSON object.
JsonString(s) == [t |-> "string", s |-> s]
JsonBoolean(b) == [t |-> "boolean", b |-> b]

\* JSON.parse(event.data): kind is "invalid" (JSON.parse throws), "null" (the
\* JSON text null), "scalar" or "object"; an object has a type ("" when it has
\* none), the members imageUrl and show, and params, whose kind is "missing",
\* "null" or "object".
MessageData(kind, type, imageUrl, show, params) ==
    [kind |-> kind, type |-> type, imageUrl |-> imageUrl, show |-> show, params |-> params]

NoParams ==
    [kind |-> "missing", scale |-> JsonOther("missing"), translateX |-> JsonOther("missing"),
     translateY |-> JsonOther("missing"), contrast |-> JsonOther("missing")]

\* JSON.parse(JSON.stringify(msg)) for a message the controller sends
Wire(msg) ==
    MessageData("object", msg.type,
        IF msg.type = "UPDATE_IMAGE" THEN JsonString(msg.imageUrl) ELSE JsonOther("missing"),
        IF msg.type = "TOGGLE_CALIBRATION" THEN JsonBoolean(msg.show) ELSE JsonOther("missing"),
        IF msg.type = "UPDATE_ALIGNMENT"
        THEN [kind |-> "object", scale |-> msg.params.scale,
              translateX |-> msg.params.translateX, translateY |-> msg.params.translateY,
              contrast |-> msg.params.contrast]
        ELSE NoParams)

\* scale / 100 for a parsed member: null counts as 0, undefined as NaN
Percent(m) ==
    IF m.t = "number" THEN RatDiv(m.v, RatOfInt(100))
    ELSE IF m.t = "null" THEN RatOfInt(0)
    ELSE NaN

\* `scale(${scale / 100}) translateX(${translateX}px) translateY(${translateY}px)`:
\* the text is kept as the three values it is built from.
TransformOf(scale, translateX, translateY) ==
    [scale |-> Percent(scale), translateX |-> translateX, translateY |-> translateY]

\* useState initial values of ProjectionView; filter `contrast(${contrast}%)` is
\* kept as the value it is built from.
InitialView ==
    [imageUrl |-> JsonOther("null"),
     transform |-> TransformOf(JsonNumber(RatOfInt(100)), JsonNumber(RatOfInt(0)),
                               JsonNumber(RatOfInt(0))),
     filter |-> JsonNumber(RatOfInt(100)),
     showCalibration |-> JsonBoolean(FALSE)]

onmessage_keepsCalibration(view, data) ==
    IF data.kind # "object" THEN view
    ELSE IF data.type = "UPDATE_IMAGE" THEN [view EXCEPT !.imageUrl = data.imageUrl]
    ELSE IF data.type = "CLEAR_IMAGE" THEN [view EXCEPT !.imageUrl = JsonOther("null")]
    ELSE IF data.type = "TOGGLE_CALIBRATION"
    THEN [view EXCEPT !.showCalibration = data.show]
    ELSE IF data.type = "UPDATE_ALIGNMENT"
    THEN IF data.params.kind # "object" THEN view
         ELSE [view EXCEPT
                  !.transform = TransformOf(data.params.scale, data.params.translateX,
                                            data.params.translateY),
                  !.filter = data.params.contrast]
    ELSE view

\* connection.onmessage of ProjectionView; the catch block only logs
onmessage(view, data) ==
    IF data.kind \in {"invalid", "null"} THEN view
    ELSE IF data.kind # "object" THEN view
    ELSE IF data.type = "UPDATE_IMAGE"
    THEN [view EXCEPT !.showCalibration = JsonBoolean(FALSE), !.imageUrl = data.imageUrl]
    ELSE IF data.type = "CLEAR_IMAGE"
    THEN [view EXCEPT !.showCalibration = JsonBoolean(FALSE), !.imageUrl = JsonOther("null")]
    ELSE IF data.type = "TOGGLE_CALIBRATION"
    THEN [view EXCEPT !.showCalibration = data.show]
    ELSE IF data.type = "UPDATE_ALIGNMENT"
    THEN IF data.params.kind # "object" THEN view
         ELSE [view EXCEPT
                  !.transform = TransformOf(data.params.scale, data.params.translateX,
                                            data.params.translateY),
                  !.filter = data.params.contrast]
    ELSE view

\* connection.onclose of ProjectionView
viewClosed(view) ==
    [view EXCEPT !.imageUrl = JsonOther("null"), !.showCalibration = JsonBoolean(FALSE)]

\* {showCalibration && <CalibrationGrid />}
CalibrationVisible(view) ==
    view.showCalibration.t = "boolean" /\ view.showCalibration.b

NotHandled ==
    [conn |-> 0, before |-> InitialView,
     data |-> MessageData("none", "", JsonOther("missing"), JsonOther("missing"), NoParams)]
\* The receiving pages are followed only in the specifications that start
\* with observed = TRUE.
NotObserved == [observed |-> FALSE, views |-> << >>, handled |-> NotHandled]

\* The view of connection c after the messages of `sent` addressed to it.
RECURSIVE Delivered(_, _, _)
Delivered(view, sent, c) ==
    IF sent = << >> THEN view
    ELSE Delivered(IF sent[1].conn = c THEN onmessage(view, Wire(sent[1].msg)) ELSE view,
                   Tail(sent), c)

\* The receiving pages at the end of a task of the controller: each page has
\* handled the messages sent to it, a page of a new connection has loaded,
\* and the page of a connection that closed has run onclose.
Receive(s) ==
    IF ~s.projectionViews.observed THEN s.projectionViews
    ELSE [s.projectionViews EXCEPT !.views =
            [c \in 1..Len(s.conns) |->
                LET view == IF c <= Len(@) THEN @[c] ELSE InitialView
                    last == Delivered(view, s.sent, c)
                IN  IF s.conns[c].state \in {"closed", "terminated"}
                    THEN viewClosed(last) ELSE last]]

\* ------------------------------------------------------ job archive (zip)
\* Entry names are sequences of code points.
SlicePrefix == << 115, 108, 105, 99, 101, 95 >>   \* "slice_"
PngSuffix == << 46, 112, 110, 103 >>              \* ".png"
PngPrefix == "data:image/png;base64"              \* the data URL up to the comma

RECURSIVE DecimalDigits(_)
\* String(i)
DecimalDigits(i) ==
    IF i < 10 THEN << 48 + i >> ELSE Append(DecimalDigits(i \div 10), 48 + (i % 10))

\* s.padStart(w, c)
PadStart(s, w, c) ==
    IF Len(s) >= w THEN s ELSE [k \in 1..(w - Len(s)) |-> c] \o s

\* `slice_${String(i).padStart(4, '0')}.png`
SliceName(i) == SlicePrefix \o PadStart(DecimalDigits(i), PadWidth, 48) \o PngSuffix

ToLower(c) == IF c \in 65..90 THEN c + 32 ELSE c

\* relativePath.toLowerCase().endsWith('.png')
EndsWithPng(name) ==
    /\ Len(name) >= Len(PngSuffix)
    /\ [k \in 1..Len(PngSuffix) |-> ToLower(name[Len(name) - Len(PngSuffix) + k])] = PngSuffix

\* String.prototype.localeCompare in the root collation, for names made of
\* letters, digits, '_' and '.': punctuation sorts before digits, digits
\* before letters; letter case only breaks ties.
CollationWeight(c) ==
    IF c = 95 THEN 1
    ELSE IF c = 46 THEN 2
    ELSE IF c \in 48..57 THEN 10 + (c - 48)
    ELSE IF ToLower(c) \in 97..122 THEN 100 + (ToLower(c) - 97)
    ELSE 50

RECURSIVE LessFrom(_, _, _)
\* lexicographic a < b, from position k on
LessFrom(a, b, k) ==
    IF k > Len(b) THEN FALSE
    ELSE IF k > Len(a) THEN TRUE
    ELSE IF a[k] = b[k] THEN LessFrom(a, b, k + 1)
    ELSE a[k] < b[k]

\* a.localeCompare(b) < 0
NameLess(a, b) ==
    LET wa == [k \in 1..Len(a) |-> CollationWeight(a[k])]
        wb == [k \in 1..Len(b) |-> CollationWeight(b[k])]
        ca == [k \in 1..Len(a) |-> IF a[k] \in 65..90 THEN 1 ELSE 0]
        cb == [k \in 1..Len(b) |-> IF b[k] \in 65..90 THEN 1 ELSE 0]
    IN  IF wa # wb THEN LessFrom(wa, wb, 1) ELSE LessFrom(ca, cb, 1)

Range(s) == {s[k] : k \in 1..Len(s)}

\* loadedImages.sort((a, b) => a.name.localeCompare(b.name)), for entries
\* with distinct names (a zip folder holds each name once)
SortByName(loaded) ==
    [k \in 1..Len(loaded) |->
        CHOOSE e \in Range(loaded) :
            Cardinality({f \in Range(loaded) : NameLess(f.name, e.name)}) = k - 1]

\* The position at which import puts image i of an exported ImageSet of n
\* images: the number of exported entry names that sort before its name.
SortedPosition(n, i) ==
    Cardinality({j \in 0..(n - 1) : NameLess(SliceName(j), SliceName(i))})

\* A data URL "data:image/png;base64,<b64>" is the pair <<PngPrefix, b64>>.
DataUrl(b64) == << PngPrefix, b64 >>
\* projectionImages[i].split(',')[1]
Base64Of(url) == url[2]

\* JSON.stringify(settings, null, 2) then JSON.parse: the document keeps the
\* three records member by member (all members are finite numbers).
SettingsJson(sp, pp, ap) ==
    [kind |-> "ok",
     value |-> [slicingParams |-> sp, projectionParams |-> pp, alignmentParams |-> ap]]

\* file.name.replace(/\.zip$/i, '.stl'); a file name is [base, ext]
ZipToStl(name) == IF name.ext \in {"zip", "ZIP"} THEN [name EXCEPT !.ext = "stl"] ELSE name
\* (fileName || 'model').replace(/\.stl$/i, '') + '.zip'
StlToZip(name) ==
    IF name.base = "" THEN [base |-> "model", ext |-> "zip"]
    ELSE IF name.ext \in {"stl", "STL"} THEN [name EXCEPT !.ext = "zip"]
    ELSE [base |-> name.base \o "." \o name.ext, ext |-> "zip"]

NoFile == [base |-> "", ext |-> ""]

\* The archive handleExportJob writes: settings.json and one entry per image.
ExportArchive(sp, pp, ap, images, fileName) ==
    [fileName |-> StlToZip(fileName),
     zipOk |-> TRUE,
     settings |-> SettingsJson(sp, pp, ap),
     entries |-> [k \in 1..Len(images) |->
                    [name |-> SliceName(k - 1), dir |-> FALSE,
                     data |-> Base64Of(images[k]), readable |-> TRUE]],
     origin |-> "export", source |-> images]

NoArchive ==
    [fileName |-> NoFile, zipOk |-> FALSE,
     settings |-> [kind |-> "absent",
                   value |-> [slicingParams |-> DefaultSlicingParams,
                              projectionParams |-> DefaultProjectionParams,
                              alignmentParams |-> DefaultAlignmentParams]],
     entries |-> << >>,
     origin |-> "none", source |-> << >>]

\* ------------------------------------------------------------------- state
VARIABLES
    \* React state of App
    slicingParams, projectionParams, alignmentParams,
    fileName, stlFile, projectionImages,
    slicingStatus, slicingStats,
    isPrinting, isWaitingForHopTrigger, printMode, timePerFrame,
    isTestPrinting, isCalibrating, isSimulationMode,
    isConnected, writeCharacteristic,
    projectionWindowStatus,
    \* refs of App
    presentationConnectionRef,   \* 0 (null) or the index of a connection in conns
    printProcessRef,             \* [currentFrame, intervalId, timeoutId], 0 is null
    testPrintIntervalRef,        \* 0 (null) or a timer id
    \* the browser
    timers,              \* pending setTimeout / setInterval callbacks with their closures
    gatt,                \* the device's GATT server: [connected, epoch]
    pairJob,             \* the handlePair call in flight
    disconnectListeners, \* gattserverdisconnected listeners, each a stopPrint closure
    printWrites,         \* handles of the print-command writes handlePrint awaits
    conns,               \* presentation connections: [state, wc, sim]
    startPending,        \* the unsettled PresentationRequest.start(), with its closure
    importJob,           \* the handleImportJob call in flight
    savedArchive,        \* the last archive handed to saveAs
    \* slicing
    slicingProgress, slicingStatusMessage,
    eventSourceRef,      \* 0 (null) or the index of an EventSource in streams
    sliceJobs,           \* the handleSlice calls: [stage]
    streams,             \* the EventSources created: [open, job]
    notifyListeners,     \* characteristicvaluechanged listeners (handleESP32Notification closures)
    \* calibration offset and preview drag
    localStorage,        \* the item stored under CALIBRATION_OFFSET_KEY
    drag,                \* SlicePreview: [isDragging, initialTranslate]
    \* the receiving pages
    projectionViews,     \* [observed, views, handled]: one ProjectionView per connection
    \* what the last task did
    lastOp, sent, written, threw, toastError, stopCalls,
    \* inputs of the archive-name check
    probe

vars ==
    << slicingParams, projectionParams, alignmentParams, fileName, stlFile,
       projectionImages, slicingStatus, slicingStats, isPrinting,
       isWaitingForHopTrigger, printMode, timePerFrame, isTestPrinting,
       isCalibrating, isSimulationMode, isConnected, writeCharacteristic,
       projectionWindowStatus, presentationConnectionRef, printProcessRef,
       testPrintIntervalRef, timers, gatt, pairJob, disconnectListeners,
       printWrites, conns, startPending, importJob, savedArchive,
       slicingProgress, slicingStatusMessage, eventSourceRef, sliceJobs, streams,
       notifyListeners, localStorage, drag, projectionViews,
       lastOp, sent, written, threw, toastError, stopCalls, probe >>

\* The current state as one record.
Cur ==
    [slicingParams |-> slicingParams, projectionParams |-> projectionParams,
     alignmentParams |-> alignmentParams, fileName |-> fileName, stlFile |-> stlFile,
     projectionImages |-> projectionImages, slicingStatus |-> slicingStatus,
     slicingStats |-> slicingStats, isPrinting |-> isPrinting,
     isWaitingForHopTrigger |-> isWaitingForHopTrigger, printMode |-> printMode,
     timePerFrame |-> timePerFrame, isTestPrinting |-> isTestPrinting,
     isCalibrating |-> isCalibrating, isSimulationMode |-> isSimulationMode,
     isConnected |-> isConnected, writeCharacteristic |-> writeCharacteristic,
     projectionWindowStatus |-> projectionWindowStatus,
     presentationConnectionRef |-> presentationConnectionRef,
     printProcessRef |-> printProcessRef, testPrintIntervalRef |-> testPrintIntervalRef,
     timers |-> timers, gatt |-> gatt, pairJob |-> pairJob,
     disconnectListeners |-> disconnectListeners, printWrites |-> printWrites,
     conns |-> conns, startPending |-> startPending, importJob |-> importJob,
     savedArchive |-> savedArchive, slicingProgress |-> slicingProgress,
     slicingStatusMessage |-> slicingStatusMessage, eventSourceRef |-> eventSourceRef,
     sliceJobs |-> sliceJobs, streams |-> streams, notifyListeners |-> notifyListeners,
     localStorage |-> localStorage, drag |-> drag,
     projectionViews |-> projectionViews,
     lastOp |-> lastOp, sent |-> sent,
     written |-> written, threw |-> threw, toastError |-> toastError,
     stopCalls |-> stopCalls, probe |-> probe]

\* The next state is the record s.
Commit(s) ==
    /\ slicingParams' = s.slicingParams
    /\ projectionParams' = s.projectionParams
    /\ alignmentParams' = s.alignmentParams
    /\ fileName' = s.fileName
    /\ stlFile' = s.stlFile
    /\ projectionImages' = s.projectionImages
    /\ slicingStatus' = s.slicingStatus
    /\ slicingStats' = s.slicingStats
    /\ isPrinting' = s.isPrinting
    /\ isWaitingForHopTrigger' = s.isWaitingForHopTrigger
    /\ printMode' = s.printMode
    /\ timePerFrame' = s.timePerFrame
    /\ isTestPrinting' = s.isTestPrinting
    /\ isCalibrating' = s.isCalibrating
    /\ isSimulationMode' = s.isSimulationMode
    /\ isConnected' = s.isConnected
    /\ writeCharacteristic' = s.writeCharacteristic
    /\ projectionWindowStatus' = s.projectionWindowStatus
    /\ presentationConnectionRef' = s.presentationConnectionRef
    /\ printProcessRef' = s.printProcessRef
    /\ testPrintIntervalRef' = s.testPrintIntervalRef
    /\ timers' = s.timers
    /\ gatt' = s.gatt
    /\ pairJob' = s.pairJob
    /\ disconnectListeners' = s.disconnectListeners
    /\ printWrites' = s.printWrites
    /\ conns' = s.conns
    /\ startPending' = s.startPending
    /\ importJob' = s.importJob
    /\ savedArchive' = s.savedArchive
    /\ slicingProgress' = s.slicingProgress
    /\ slicingStatusMessage' = s.slicingStatusMessage
    /\ eventSourceRef' = s.eventSourceRef
    /\ sliceJobs' = s.sliceJobs
    /\ streams' = s.streams
    /\ notifyListeners' = s.notifyListeners
    /\ localStorage' = s.localStorage
    /\ drag' = s.drag
    /\ projectionViews' = Receive(s)
    /\ lastOp' = s.lastOp
    /\ sent' = s.sent
    /\ written' = s.written
    /\ threw' = s.threw
    /\ toastError' = s.toastError
    /\ stopCalls' = s.stopCalls
    /\ probe' = s.probe

\* The state at the start of task op: nothing sent, written or raised yet.
Begin(op) ==
    [Cur EXCEPT !.lastOp = op, !.sent = << >>, !.written = << >>,
                !.threw = FALSE, !.toastError = "", !.stopCalls = << >>,
                !.projectionViews.handled = NotHandled]

\* The state of App after its first render.
InitApp ==
    /\ slicingParams = DefaultSlicingParams
    /\ projectionParams = DefaultProjectionParams
    /\ alignmentParams = DefaultAlignmentParams
    /\ fileName = NoFile
    /\ stlFile = FALSE
    /\ projectionImages = << >>
    /\ slicingStatus = "idle"
    /\ slicingStats = NoStats
    /\ isPrinting = FALSE
    /\ isWaitingForHopTrigger = FALSE
    /\ printMode = "velocity"
    /\ timePerFrame = DefaultTimePerFrame
    /\ isTestPrinting = FALSE
    /\ isCalibrating = FALSE
    /\ isSimulationMode = FALSE
    /\ isConnected = FALSE
    /\ writeCharacteristic = 0
    /\ projectionWindowStatus = "Disconnected"
    /\ presentationConnectionRef = 0
    /\ printProcessRef = [currentFrame |-> 0, intervalId |-> 0, timeoutId |-> 0]
    /\ testPrintIntervalRef = 0
    /\ timers = {}
    /\ gatt = [connected |-> FALSE, epoch |-> 0]
    /\ pairJob = [stage |-> "idle", wc |-> 0, sim |-> FALSE, hop |-> FALSE]
    /\ disconnectListeners = << >>
    /\ printWrites = << >>
    /\ conns = << >>
    /\ startPending = << >>
    /\ importJob = [stage |-> "idle", archive |-> NoArchive, loaded |-> << >>,
                    before |-> << >>]
    /\ savedArchive = NoArchive
    /\ slicingProgress = 0
    /\ slicingStatusMessage = ""
    /\ eventSourceRef = 0
    /\ sliceJobs = << >>
    /\ streams = << >>
    /\ notifyListeners = << >>
    /\ localStorage = NoItem
    /\ drag = NoDrag
    /\ lastOp = "init"
    /\ sent = << >>
    /\ written = << >>
    /\ threw = FALSE
    /\ toastError = ""
    /\ stopCalls = << >>

Init ==
    /\ InitApp
    /\ projectionViews = NotObserved
    /\ probe = [n |-> 0, i |-> 0, position |-> -1]

\* ------------------------------------------------------- browser primitives
\* connection.send(message): raises InvalidStateError unless the connection
\* state is 'connected'.
ChannelSend(s, c, msg) ==
    IF s.conns[c].state = "connected"
    THEN [s EXCEPT !.sent = Append(@, [conn |-> c, msg |-> msg])]
    ELSE [s EXCEPT !.threw = TRUE]

\* presentationConnectionRef.current?.state === 'connected'
RefConnected(s) ==
    /\ s.presentationConnectionRef # 0
    /\ s.conns[s.presentationConnectionRef].state = "connected"

\* A characteristic is usable while the GATT connection it was resolved on lasts.
HandleLive(s, h) == s.gatt.connected /\ h = s.gatt.epoch

\* characteristic.writeValue(buffer): the call is logged; a failure is reported
\* through the returned promise.
WriteValue(s, h, cmd) ==
    [s EXCEPT !.written = Append(@, [h |-> h, cmd |-> cmd, live |-> HandleLive(s, h)])]

\* clearTimeout(id) / clearInterval(id): both cancel any timer with that id.
ClearTimer(s, id) == [s EXCEPT !.timers = {t \in @ : t.id # id}]

\* Timer ids are never reused by the browser: a new id differs from every
\* pending id and from every id the program still holds.
FreshTimerId(s) ==
    LET used == {t.id : t \in s.timers}
                \cup {s.printProcessRef.timeoutId, s.testPrintIntervalRef}
    IN  CHOOSE i \in 1..(Cardinality(used) + 1) :
            /\ i \notin used
            /\ \A j \in 1..(i - 1) : j \in used

SimTimersOf(s) == {t \in s.timers : t.kind = "sim"}
TestTimersOf(s) == {t \in s.timers : t.kind = "test"}

ToastError(s, msg) == [s EXCEPT !.toastError = msg]

\* ------------------------------------------------------------ the handlers
\* stopPrint, with the writeCharacteristic and isSimulationMode of the render
\* that created this instance of the callback.
stopPrint(s, wc, sim) ==
    LET s1 == IF s.printProcessRef.timeoutId # 0
              THEN [ClearTimer(s, s.printProcessRef.timeoutId)
                        EXCEPT !.printProcessRef.timeoutId = 0]
              ELSE s
        s2 == [s1 EXCEPT !.isPrinting = FALSE, !.isWaitingForHopTrigger = FALSE]
        s3 == IF wc # 0 /\ ~sim THEN WriteValue(s2, wc, StopCommand) ELSE s2
        s4 == IF s3.presentationConnectionRef # 0
              THEN ChannelSend(s3, s3.presentationConnectionRef, ClearImage)
              ELSE s3
    IN  [s4 EXCEPT !.stopCalls = Append(@,
            [printing |-> s.isPrinting,
             idle |-> ~s.isPrinting /\ s.timers = {},
             wrote |-> Len(s3.written) - Len(s.written),
             sent |-> Len(s4.sent) - Len(s3.sent),
             threw |-> s4.threw /\ ~s3.threw])]

stopTestPrint(s) ==
    LET s1 == IF s.testPrintIntervalRef # 0
              THEN [ClearTimer(s, s.testPrintIntervalRef) EXCEPT !.testPrintIntervalRef = 0]
              ELSE s
        s2 == IF RefConnected(s1)
              THEN ChannelSend(s1, s1.presentationConnectionRef, ClearImage)
              ELSE s1
    IN  [s2 EXCEPT !.isTestPrinting = FALSE]

\* const frameDuration = printMode === 'time-per-frame' ? timePerFrame : 33
FrameDuration(s) ==
    IF s.printMode = "time-per-frame" THEN s.timePerFrame ELSE TestFrameDuration

handleTestPrint(s) ==
    IF s.isTestPrinting THEN stopTestPrint(s)
    ELSE IF Len(s.projectionImages) = 0
    THEN ToastError(s, "Please slice a model first to generate images.")
    ELSE IF ~RefConnected(s)
    THEN ToastError(s, "Please connect to the second monitor from the 'Advanced' tab first.")
    ELSE LET s1 == [s EXCEPT !.isCalibrating = FALSE, !.isTestPrinting = TRUE]
             id == FreshTimerId(s1)
         IN  [s1 EXCEPT !.testPrintIntervalRef = id,
                        !.timers = @ \cup {[id |-> id, kind |-> "test",
                                            images |-> s.projectionImages, frame |-> 0,
                                            wc |-> 0, sim |-> FALSE,
                                            delay |-> RatOfInt(FrameDuration(s))]}]

testPrintTick_noWrap(s, t) ==
    IF RefConnected(s) /\ t.frame < Len(t.images)
    THEN LET s1 == ChannelSend(s, s.presentationConnectionRef,
                               UpdateImage(t.images[t.frame + 1]))
         IN  [s1 EXCEPT !.timers = (@ \ {t}) \cup {[t EXCEPT !.frame = t.frame + 1]}]
    ELSE stopTestPrint(s)

\* One run of the callback given to setInterval by handleTestPrint; t is the
\* timer with the closure's images and currentFrame.
testPrintTick(s, t) ==
    IF RefConnected(s)
    THEN LET s1 == ChannelSend(s, s.presentationConnectionRef,
                               UpdateImage(t.images[t.frame + 1]))
         IN  [s1 EXCEPT !.timers = (@ \ {t}) \cup
                            {[t EXCEPT !.frame = (t.frame + 1) % Len(t.images)]}]
    ELSE stopTestPrint(s)

handleCalibration_noStop(s) ==
    IF ~RefConnected(s)
    THEN ToastError(s, "Please connect to the second monitor first.")
    ELSE LET newCalibrationState == ~s.isCalibrating
         IN  ChannelSend([s EXCEPT !.isCalibrating = newCalibrationState],
                         s.presentationConnectionRef,
                         ToggleCalibration(newCalibrationState))

handleCalibration(s) ==
    IF ~RefConnected(s)
    THEN ToastError(s, "Please connect to the second monitor first.")
    ELSE LET s1 == IF s.isTestPrinting THEN stopTestPrint(s) ELSE s
             newCalibrationState == ~s.isCalibrating
         IN  ChannelSend([s1 EXCEPT !.isCalibrating = newCalibrationState],
                         s1.presentationConnectionRef,
                         ToggleCalibration(newCalibrationState))

SimulationDelay_hopsDefault(mode, tpf, pp, totalFrames) ==
    IF mode = "time-per-frame" THEN RatOfInt(tpf)
    ELSE IF mode = "velocity"
    THEN LET degreesPerFrame == RatDiv(RatOfInt(pp.totalRotation), RatOfInt(totalFrames))
         IN  RatMul(RatDiv(degreesPerFrame, RatOfInt(pp.rotationSpeed)), RatOfInt(1000))
    ELSE RatOfInt(DefaultSimulationDelay)

\* The delay runSimulationStep passes to setTimeout.
SimulationDelay(mode, tpf, pp, totalFrames) ==
    IF mode = "time-per-frame" THEN RatOfInt(tpf)
    ELSE IF mode \in {"velocity", "hops"}
    THEN LET degreesPerFrame == RatDiv(RatOfInt(pp.totalRotation), RatOfInt(totalFrames))
         IN  RatMul(RatDiv(degreesPerFrame, RatOfInt(pp.rotationSpeed)), RatOfInt(1000))
    ELSE RatOfInt(DefaultSimulationDelay)

runSimulationStep_skipsFrame(s, cl) ==
    IF s.printProcessRef.currentFrame + 1 >= Len(cl.images)
    THEN stopPrint(s, cl.wc, cl.sim)
    ELSE LET s1 == IF s.presentationConnectionRef # 0
                   THEN ChannelSend(s, s.presentationConnectionRef,
                            UpdateImage(cl.images[s.printProcessRef.currentFrame + 2]))
                   ELSE s
             id == FreshTimerId(s1)
         IN  IF s1.threw THEN s1
             ELSE [s1 EXCEPT !.printProcessRef.currentFrame = @ + 1,
                             !.printProcessRef.timeoutId = id,
                             !.timers = @ \cup {[cl EXCEPT !.id = id]}]

\* One run of runSimulationStep; cl is its closure: the projectionImages,
\* stopPrint (wc, sim) and timing values of the render handlePrint ran in.
runSimulationStep(s, cl) ==
    IF s.printProcessRef.currentFrame >= Len(cl.images)
    THEN stopPrint(s, cl.wc, cl.sim)
    ELSE LET s1 == IF s.presentationConnectionRef # 0
                   THEN ChannelSend(s, s.presentationConnectionRef,
                            UpdateImage(cl.images[s.printProcessRef.currentFrame + 1]))
                   ELSE s
             id == FreshTimerId(s1)
         IN  IF s1.threw THEN s1
             ELSE [s1 EXCEPT !.printProcessRef.currentFrame = @ + 1,
                             !.printProcessRef.timeoutId = id,
                             !.timers = @ \cup {[cl EXCEPT !.id = id]}]

handlePrint_noChannelCheck(s) ==
    IF s.isPrinting THEN stopPrint(s, s.writeCharacteristic, s.isSimulationMode)
    ELSE IF s.isSimulationMode
    THEN runSimulationStep(
             [s EXCEPT !.isPrinting = TRUE, !.printProcessRef.currentFrame = 0],
             [id |-> 0, kind |-> "sim", images |-> s.projectionImages, frame |-> 0,
              wc |-> s.writeCharacteristic, sim |-> s.isSimulationMode,
              delay |-> IF Len(s.projectionImages) = 0 THEN RatOfInt(0)
                        ELSE SimulationDelay(s.printMode, s.timePerFrame,
                                 s.projectionParams, Len(s.projectionImages))])
    ELSE IF s.writeCharacteristic = 0
    THEN ToastError(s, "BLE device is not connected.")
    ELSE [WriteValue([s EXCEPT !.isPrinting = TRUE], s.writeCharacteristic,
                     PrintCommand(s.projectionParams))
            EXCEPT !.printWrites = Append(@, s.writeCharacteristic)]

handlePrint_realIterates(s) ==
    IF s.isPrinting THEN stopPrint(s, s.writeCharacteristic, s.isSimulationMode)
    ELSE IF s.isSimulationMode
    THEN IF ~RefConnected(s)
         THEN ToastError(s, "Connect to second monitor for simulation.")
         ELSE runSimulationStep(
                  [s EXCEPT !.isPrinting = TRUE, !.printProcessRef.currentFrame = 0],
                  [id |-> 0, kind |-> "sim", images |-> s.projectionImages, frame |-> 0,
                   wc |-> s.writeCharacteristic, sim |-> s.isSimulationMode,
                   delay |-> IF Len(s.projectionImages) = 0 THEN RatOfInt(0)
                             ELSE SimulationDelay(s.printMode, s.timePerFrame,
                                      s.projectionParams, Len(s.projectionImages))])
    ELSE IF s.writeCharacteristic = 0
    THEN ToastError(s, "BLE device is not connected.")
    ELSE runSimulationStep(
             [WriteValue([s EXCEPT !.isPrinting = TRUE, !.printProcessRef.currentFrame = 0],
                         s.writeCharacteristic, PrintCommand(s.projectionParams))
                EXCEPT !.printWrites = Append(@, s.writeCharacteristic)],
             [id |-> 0, kind |-> "sim", images |-> s.projectionImages, frame |-> 0,
              wc |-> s.writeCharacteristic, sim |-> s.isSimulationMode,
              delay |-> IF Len(s.projectionImages) = 0 THEN RatOfInt(0)
                        ELSE SimulationDelay(s.printMode, s.timePerFrame,
                                 s.projectionParams, Len(s.projectionImages))])

handlePrint(s) ==
    IF s.isPrinting THEN stopPrint(s, s.writeCharacteristic, s.isSimulationMode)
    ELSE IF s.isSimulationMode
    THEN IF ~RefConnected(s)
         THEN ToastError(s, "Connect to second monitor for simulation.")
         ELSE runSimulationStep(
                  [s EXCEPT !.isPrinting = TRUE, !.printProcessRef.currentFrame = 0],
                  [id |-> 0, kind |-> "sim", images |-> s.projectionImages, frame |-> 0,
                   wc |-> s.writeCharacteristic, sim |-> s.isSimulationMode,
                   delay |-> IF Len(s.projectionImages) = 0 THEN RatOfInt(0)
                             ELSE SimulationDelay(s.printMode, s.timePerFrame,
                                      s.projectionParams, Len(s.projectionImages))])
    ELSE IF s.writeCharacteristic = 0
    THEN ToastError(s, "BLE device is not connected.")
    ELSE [WriteValue([s EXCEPT !.isPrinting = TRUE], s.writeCharacteristic,
                     PrintCommand(s.projectionParams))
            EXCEPT !.printWrites = Append(@, s.writeCharacteristic)]

printWriteCatch_keepsPrinting(s) == ToastError(s, "Failed to send command")

\* The catch block of handlePrint's `await writeCharacteristic.writeValue(...)`.
printWriteCatch(s) ==
    [ToastError(s, "Failed to send command") EXCEPT !.isPrinting = FALSE]

\* closeHandler of connection c (onclose and onterminate)
closeHandler(s, c) ==
    LET s1 == [s EXCEPT !.projectionWindowStatus = "Disconnected",
                        !.presentationConnectionRef = IF @ = c THEN 0 ELSE @]
        s2 == stopPrint(s1, s.conns[c].wc, s.conns[c].sim)
    IN  IF s2.threw THEN s2
        ELSE [stopTestPrint(s2) EXCEPT !.isCalibrating = FALSE]

\* The condition handleESP32Notification tests, with the printMode, isPrinting
\* and isWaitingForHopTrigger of the render that created the callback.
HopTriggerExpected(s) == s.printMode = "hops" /\ s.isPrinting /\ s.isWaitingForHopTrigger

\* handleESP32Notification; expected is the value of its condition in the
\* render whose instance of the callback handlePair registered.
handleESP32Notification(s, expected) ==
    IF expected THEN [s EXCEPT !.isWaitingForHopTrigger = FALSE] ELSE s

RECURSIVE RunNotifyListeners(_, _)
RunNotifyListeners(s, ls) ==
    IF ls = << >> THEN s
    ELSE RunNotifyListeners(handleESP32Notification(s, Head(ls)), Tail(ls))

\* const sendNextHopCommand = useCallback(async () => { }, []): the body is empty
sendNextHopCommand(s) == s

\* The gattserverdisconnected listener added by handlePair; cl is the
\* stopPrint closure of the handlePair call that added it.
onGattDisconnected(s, cl) ==
    stopPrint([s EXCEPT !.isConnected = FALSE, !.writeCharacteristic = 0], cl.wc, cl.sim)

RECURSIVE RunListeners(_, _)
\* every registered listener runs, in registration order; an exception raised
\* by one does not keep the others from running
RunListeners(s, ls) ==
    IF ls = << >> THEN s
    ELSE RunListeners(onGattDisconnected(s, Head(ls)), Tail(ls))

alignmentEffect_whileCalibrating(s) ==
    IF RefConnected(s) /\ s.isCalibrating
    THEN ChannelSend(s, s.presentationConnectionRef, UpdateAlignment(s.alignmentParams))
    ELSE s

\* useEffect(..., [alignmentParams]): runs after a render in which
\* alignmentParams is a new object
alignmentEffect(s) ==
    IF RefConnected(s)
    THEN ChannelSend(s, s.presentationConnectionRef, UpdateAlignment(s.alignmentParams))
    ELSE s

\* ------------------------------------------------- calibration and alignment
calibrationOffsetLoad_noTypeCheck(s) ==
    LET item == s.localStorage
        tried == IF item.kind \in {"absent", "empty"} THEN s
                 ELSE IF item.kind \in {"malformed", "null"} THEN [s EXCEPT !.threw = TRUE]
                 ELSE IF item.kind = "object"
                 THEN [s EXCEPT !.alignmentParams.translateX = item.x.v,
                                !.alignmentParams.translateY = item.y.v]
                 ELSE s
    IN  IF tried.threw THEN s ELSE tried

\* The mount effect that loads the calibration offset.  In its try block
\* JSON.parse raises on text that is not JSON and `savedOffset.x` raises when
\* the text is null; the catch block only logs.
calibrationOffsetLoad(s) ==
    LET item == s.localStorage
        tried == IF item.kind \in {"absent", "empty"} THEN s
                 ELSE IF item.kind \in {"malformed", "null"} THEN [s EXCEPT !.threw = TRUE]
                 ELSE IF item.kind = "object" /\ item.x.t = "number" /\ item.y.t = "number"
                 THEN [s EXCEPT !.alignmentParams.translateX = item.x.v,
                                !.alignmentParams.translateY = item.y.v]
                 ELSE s
    IN  IF tried.threw THEN s ELSE tried

handleKeyDown_always(s, key, shiftKey, ctrlKey) ==
    LET step == IF shiftKey THEN RatOfInt(10)
                ELSE IF ctrlKey THEN Rat(1, 10) ELSE RatOfInt(1)
        prev == s.alignmentParams
    IN  CASE key = "ArrowUp" ->
               alignmentEffect([s EXCEPT !.alignmentParams.translateY =
                                               RatAdd(prev.translateY, RatNeg(step))])
          [] key = "ArrowDown" ->
               alignmentEffect([s EXCEPT !.alignmentParams.translateY =
                                               RatAdd(prev.translateY, step)])
          [] key = "ArrowLeft" ->
               alignmentEffect([s EXCEPT !.alignmentParams.translateX =
                                               RatAdd(prev.translateX, RatNeg(step))])
          [] key = "ArrowRight" ->
               alignmentEffect([s EXCEPT !.alignmentParams.translateX =
                                               RatAdd(prev.translateX, step)])
          [] OTHER -> s

\* handleKeyDown of the calibration keyboard effect, followed by the render
\* and the alignment effect when setAlignmentParams produced a new object
handleKeyDown(s, key, shiftKey, ctrlKey) ==
    IF ~s.isCalibrating THEN s
    ELSE LET step == IF shiftKey THEN RatOfInt(10)
                     ELSE IF ctrlKey THEN Rat(1, 10) ELSE RatOfInt(1)
             prev == s.alignmentParams
         IN  CASE key = "ArrowUp" ->
                    alignmentEffect([s EXCEPT !.alignmentParams.translateY =
                                                    RatAdd(prev.translateY, RatNeg(step))])
               [] key = "ArrowDown" ->
                    alignmentEffect([s EXCEPT !.alignmentParams.translateY =
                                                    RatAdd(prev.translateY, step)])
               [] key = "ArrowLeft" ->
                    alignmentEffect([s EXCEPT !.alignmentParams.translateX =
                                                    RatAdd(prev.translateX, RatNeg(step))])
               [] key = "ArrowRight" ->
                    alignmentEffect([s EXCEPT !.alignmentParams.translateX =
                                                    RatAdd(prev.translateX, step)])
               [] OTHER -> s

\* handleDragMove of SlicePreview for a pointer dx, dy away from dragStartPos
handleDragMove(s, dx, dy) ==
    IF ~s.drag.isDragging THEN s
    ELSE LET scaleFactor == RatDiv(s.alignmentParams.scale, RatOfInt(100))
         IN  alignmentEffect(
                 [s EXCEPT !.alignmentParams.translateX =
                               RatAdd(s.drag.initialTranslate[1], RatDiv(RatOfInt(dx), scaleFactor)),
                           !.alignmentParams.translateY =
                               RatAdd(s.drag.initialTranslate[2], RatDiv(RatOfInt(dy), scaleFactor))])

\* handleSaveOffset; localStorage.setItem is taken to succeed
handleSaveOffset(s) ==
    [s EXCEPT !.localStorage = StoredItem("object",
                                          JsonOfNumber(s.alignmentParams.translateX),
                                          JsonOfNumber(s.alignmentParams.translateY))]

handleResetOffset_keepsItem(s) ==
    alignmentEffect([s EXCEPT !.alignmentParams.translateX = RatOfInt(0),
                              !.alignmentParams.translateY = RatOfInt(0)])

\* handleResetOffset; localStorage.removeItem is taken to succeed
handleResetOffset(s) ==
    alignmentEffect([s EXCEPT !.localStorage = NoItem,
                              !.alignmentParams.translateX = RatOfInt(0),
                              !.alignmentParams.translateY = RatOfInt(0)])

\* The state of a freshly loaded page whose origin stores item: App after its
\* first render, before the mount effects.
BootState(item) ==
    [slicingParams |-> DefaultSlicingParams,
     projectionParams |-> DefaultProjectionParams,
     alignmentParams |-> DefaultAlignmentParams,
     fileName |-> NoFile,
     stlFile |-> FALSE,
     projectionImages |-> << >>,
     slicingStatus |-> "idle",
     slicingStats |-> NoStats,
     isPrinting |-> FALSE,
     isWaitingForHopTrigger |-> FALSE,
     printMode |-> "velocity",
     timePerFrame |-> DefaultTimePerFrame,
     isTestPrinting |-> FALSE,
     isCalibrating |-> FALSE,
     isSimulationMode |-> FALSE,
     isConnected |-> FALSE,
     writeCharacteristic |-> 0,
     projectionWindowStatus |-> "Disconnected",
     presentationConnectionRef |-> 0,
     printProcessRef |-> [currentFrame |-> 0, intervalId |-> 0, timeoutId |-> 0],
     testPrintIntervalRef |-> 0,
     timers |-> {},
     gatt |-> [connected |-> FALSE, epoch |-> 0],
     pairJob |-> [stage |-> "idle", wc |-> 0, sim |-> FALSE, hop |-> FALSE],
     disconnectListeners |-> << >>,
     printWrites |-> << >>,
     conns |-> << >>,
     startPending |-> << >>,
     importJob |-> [stage |-> "idle", archive |-> NoArchive, loaded |-> << >>, before |-> << >>],
     savedArchive |-> NoArchive,
     slicingProgress |-> 0,
     slicingStatusMessage |-> "",
     eventSourceRef |-> 0,
     sliceJobs |-> << >>,
     streams |-> << >>,
     notifyListeners |-> << >>,
     localStorage |-> item,
     drag |-> NoDrag,
     projectionViews |-> NotObserved,
     lastOp |-> "init",
     sent |-> << >>,
     written |-> << >>,
     threw |-> FALSE,
     toastError |-> "",
     stopCalls |-> << >>,
     probe |-> [n |-> 0, i |-> 0, position |-> -1]]

\* ... and after the mount effects
Mounted(item) == calibrationOffsetLoad(BootState(item))

\* ---------------------------------------------------------------- slicing
\* processFile(file): valid is file.name.toLowerCase().endsWith('.stl')
processFile(s, file, valid) ==
    IF valid THEN [s EXCEPT !.fileName = file, !.stlFile = TRUE]
    ELSE [ToastError(s, "Please select a valid .stl file.")
             EXCEPT !.fileName = NoFile, !.stlFile = FALSE]

\* eventSource.close()
CloseStream(s, j) == [s EXCEPT !.streams[j].open = FALSE]

\* handleSlice up to `await fetch(.../api/slice/start)`
handleSlice(s) ==
    IF ~s.stlFile THEN ToastError(s, "Please upload an STL file first.")
    ELSE LET s1 == [s EXCEPT !.slicingStatus = "slicing",
                             !.slicingProgress = 0,
                             !.slicingStatusMessage = "",
                             !.slicingStats = NoStats,
                             !.projectionImages = << >>]
             s2 == IF s1.eventSourceRef # 0 THEN CloseStream(s1, s1.eventSourceRef) ELSE s1
         IN  [s2 EXCEPT !.sliceJobs = Append(@, [stage |-> "pending"])]

\* the message of the Error the start request ends with
StartFailureMessage(outcome) ==
    CASE outcome = "network" -> "Failed to fetch"
      [] outcome = "notOk" -> "Failed to start slicing job: Internal Server Error"
      [] outcome = "noJobId" -> "Did not receive a job_id from the server."
      [] OTHER -> ""

\* the catch block of handleSlice
sliceCatch(s, k, errorMessage) ==
    [s EXCEPT !.slicingStatus = "failed",
              !.slicingStatusMessage = errorMessage,
              !.toastError = "Slicing failed: " \o errorMessage,
              !.sliceJobs[k].stage = "failed"]

\* handleSlice after the start request of submission k settled: outcome is
\* "ok" (an OK response carrying a job_id), "network" (fetch rejects),
\* "notOk" (!startResponse.ok) or "noJobId" (no job_id in the response)
sliceStartSettled_noJobIdCheck(s, k, outcome) ==
    IF outcome \in {"ok", "noJobId"}
    THEN [s EXCEPT !.streams = Append(@, [open |-> TRUE, job |-> k]),
                   !.eventSourceRef = Len(s.streams) + 1,
                   !.sliceJobs[k].stage = "streaming"]
    ELSE sliceCatch(s, k, StartFailureMessage(outcome))

sliceStartSettled(s, k, outcome) ==
    IF outcome = "ok"
    THEN [s EXCEPT !.streams = Append(@, [open |-> TRUE, job |-> k]),
                   !.eventSourceRef = Len(s.streams) + 1,
                   !.sliceJobs[k].stage = "streaming"]
    ELSE sliceCatch(s, k, StartFailureMessage(outcome))

streamMessage_reversed(s, j, data) ==
    LET s1 == [s EXCEPT !.slicingProgress = data.progress]
    IN  IF data.status = "complete"
        THEN LET n == Len(data.images)
                 imagesWithPrefix == [i \in 1..n |-> DataUrl(data.images[n + 1 - i])]
             IN  [CloseStream(s1, j) EXCEPT
                     !.projectionImages = imagesWithPrefix,
                     !.slicingStatus = "complete",
                     !.slicingStats = [time |-> data.elapsed, count |-> Len(imagesWithPrefix)],
                     !.eventSourceRef = 0]
        ELSE IF data.status = "failed"
        THEN [CloseStream(s1, j) EXCEPT
                 !.slicingStatus = "failed",
                 !.slicingStatusMessage =
                     IF data.error = "" THEN "An unknown error occurred." ELSE data.error,
                 !.toastError = "Slicing failed: " \o
                     (IF data.error = "" THEN "Unknown reason" ELSE data.error),
                 !.eventSourceRef = 0]
        ELSE s1

\* eventSource.onmessage of stream j; data is the parsed event payload
streamMessage(s, j, data) ==
    LET s1 == [s EXCEPT !.slicingProgress = data.progress]
    IN  IF data.status = "complete"
        THEN LET imagesWithPrefix == [i \in 1..Len(data.images) |-> DataUrl(data.images[i])]
             IN  [CloseStream(s1, j) EXCEPT
                     !.projectionImages = imagesWithPrefix,
                     !.slicingStatus = "complete",
                     !.slicingStats = [time |-> data.elapsed, count |-> Len(imagesWithPrefix)],
                     !.eventSourceRef = 0]
        ELSE IF data.status = "failed"
        THEN [CloseStream(s1, j) EXCEPT
                 !.slicingStatus = "failed",
                 !.slicingStatusMessage =
                     IF data.error = "" THEN "An unknown error occurred." ELSE data.error,
                 !.toastError = "Slicing failed: " \o
                     (IF data.error = "" THEN "Unknown reason" ELSE data.error),
                 !.eventSourceRef = 0]
        ELSE s1

streamError_keepsOpen(s, j) ==
    [s EXCEPT
        !.slicingStatus = "failed",
        !.slicingStatusMessage = "Connection to server lost.",
        !.toastError = "Connection to slicing server lost.",
        !.eventSourceRef = 0]

\* eventSource.onerror of stream j
streamError(s, j) ==
    [CloseStream(s, j) EXCEPT
        !.slicingStatus = "failed",
        !.slicingStatusMessage = "Connection to server lost.",
        !.toastError = "Connection to slicing server lost.",
        !.eventSourceRef = 0]

\* ------------------------------------------------------------- job import
Snapshot(s) ==
    [slicingParams |-> s.slicingParams, projectionParams |-> s.projectionParams,
     alignmentParams |-> s.alignmentParams, projectionImages |-> s.projectionImages,
     fileName |-> s.fileName, stlFile |-> s.stlFile, slicingStatus |-> s.slicingStatus]

\* handleImportJob up to `await JSZip.loadAsync(file)`
importStart(s, a) ==
    [s EXCEPT !.importJob = [stage |-> "loading", archive |-> a, loaded |-> << >>,
                             before |-> << Snapshot(s) >>]]

\* the catch block and the finally block of handleImportJob
importFail(s, msg) ==
    [s EXCEPT !.lastOp = "importFailed", !.toastError = "Import failed: " \o msg,
              !.importJob.stage = "idle"]

\* zip.folder("projections"): JSZip creates the folder when the archive has
\* none and returns it, so the result is never null; forEach then visits the
\* entries under it, which are none for a folder just created.
ProjectionsFolder(a) == a.entries

\* the entries forEach keeps: !zipEntry.dir && name.toLowerCase().endsWith('.png')
ImageEntries(a) ==
    SelectSeq(ProjectionsFolder(a), LAMBDA e : ~e.dir /\ EndsWithPng(e.name))

\* handleImportJob from the archive being loaded to `await Promise.all(...)`
importSettings(s) ==
    LET a == s.importJob.archive
    IN  IF ~a.zipOk THEN importFail(s, "not a zip file")
        ELSE IF a.settings.kind = "absent"
        THEN importFail(s, "settings.json not found in zip file.")
        ELSE IF a.settings.kind = "malformed"
        THEN importFail(s, "Unexpected token in JSON")
        ELSE alignmentEffect(
                 [s EXCEPT !.slicingParams = a.settings.value.slicingParams,
                           !.projectionParams = a.settings.value.projectionParams,
                           !.alignmentParams = a.settings.value.alignmentParams,
                           !.importJob.stage = "reading",
                           !.importJob.loaded = ImageEntries(a)])

\* handleImportJob after `await Promise.all(imagePromises)`
importImages(s) ==
    LET a == s.importJob.archive
        loadedImages == SortByName(s.importJob.loaded)
    IN  IF \E k \in 1..Len(s.importJob.loaded) : ~s.importJob.loaded[k].readable
        THEN importFail(s, "Corrupted zip entry")
        ELSE [s EXCEPT !.projectionImages =
                            [k \in 1..Len(loadedImages) |-> DataUrl(loadedImages[k].data)],
                       !.fileName = ZipToStl(a.fileName),
                       !.stlFile = FALSE,
                       !.slicingStatus = "complete",
                       !.slicingStats = [time |-> 0, count |-> Len(loadedImages)],
                       !.importJob.stage = "idle"]

\* ------------------------------------------------------------- job export
handleExportJob(s) ==
    IF s.slicingStatus # "complete" \/ Len(s.projectionImages) = 0
    THEN ToastError(s, "Please slice a model successfully before exporting.")
    ELSE [s EXCEPT !.savedArchive =
                        ExportArchive(s.slicingParams, s.projectionParams,
                                      s.alignmentParams, s.projectionImages, s.fileName)]

\* ------------------------------------------------------------------ the UI
hasSlices == Len(projectionImages) > 0
isProjectionWindowConnected == projectionWindowStatus = "Connected"
\* disabled={(!isConnected && !isSimulationMode) || isTestPrinting || !hasSlices}
PrintButtonEnabled ==
    ~((~isConnected /\ ~isSimulationMode) \/ isTestPrinting \/ ~hasSlices)
\* disabled={!isProjectionWindowConnected || !hasSlices || isPrinting}
TestButtonEnabled == ~(~isProjectionWindowConnected \/ ~hasSlices \/ isPrinting)
\* disabled={!isProjectionWindowConnected}
CalibrationButtonEnabled == isProjectionWindowConnected
\* disabled={isSimulationMode}
PairButtonEnabled == ~isSimulationMode
\* disabled={projectionWindowStatus === 'Connecting...'}
OpenButtonEnabled == projectionWindowStatus # "Connecting..."
\* disabled={slicingStatus !== 'complete'}
ExportButtonEnabled == slicingStatus = "complete"
\* disabled={!fileName || isSlicing}
SliceButtonEnabled == ~(fileName = NoFile \/ slicingStatus = "slicing")

\* ------------------------------------------------------------ input data
AltSlicingParams ==
    [voxelSize |-> 2, numProjections |-> 60, rotX |-> 90, rotY |-> 0, rotZ |-> 45]

AltProjectionParams ==
    [totalRotation |-> 90, rotationSpeed |-> 7, pauseAfterRotation |-> 500,
     verticalSteps |-> 1000, verticalDelay |-> 100, verticalDirection |-> 0]

AltAlignmentParams ==
    [scale |-> RatOfInt(150), translateX |-> RatOfInt(5), translateY |-> RatOfInt(-3),
     contrast |-> RatOfInt(120)]

JobFile == [base |-> "job", ext |-> "zip"]

\* A well-formed job archive of n images whose container lists the entries
\* in reverse order.
GoodArchive(n) ==
    [fileName |-> JobFile, zipOk |-> TRUE,
     settings |-> SettingsJson(AltSlicingParams, AltProjectionParams, AltAlignmentParams),
     entries |-> [k \in 1..n |->
                    [name |-> SliceName(n - k), dir |-> FALSE,
                     data |-> 10 + (n - k), readable |-> TRUE]],
     origin |-> "crafted", source |-> << >>]

NotesTxt == << 110, 111, 116, 101, 115, 46, 116, 120, 116 >>   \* "notes.txt"
SubDir == << 111, 108, 100 >>                                  \* "old"

BrokenArchives ==
    { [GoodArchive(MaxImages) EXCEPT !.zipOk = FALSE],
      [GoodArchive(MaxImages) EXCEPT !.settings.kind = "absent"],
      [GoodArchive(MaxImages) EXCEPT !.settings.kind = "malformed"],
      [GoodArchive(MaxImages) EXCEPT !.entries = << >>],
      [GoodArchive(MaxImages) EXCEPT !.entries =
            << [name |-> NotesTxt, dir |-> FALSE, data |-> 0, readable |-> TRUE],
               [name |-> SubDir, dir |-> TRUE, data |-> 0, readable |-> TRUE] >>],
      [GoodArchive(MaxImages) EXCEPT !.entries[1].readable = FALSE] }

\* The orders in which a container may list the entries of archive a.
Reorderings(a) ==
    LET n == Len(a.entries)
        perms == {p \in [1..n -> 1..n] : \A x, y \in 1..n : x # y => p[x] # p[y]}
    IN  {[a EXCEPT !.entries = [k \in 1..n |-> a.entries[p[k]]]] : p \in perms}

SessionArchives == {GoodArchive(SessionImages)}

CodecArchives ==
    {GoodArchive(n) : n \in 1..MaxImages} \cup BrokenArchives
    \cup (IF savedArchive.origin = "export" THEN Reorderings(savedArchive) ELSE {})

\* ----------------------------------------------------------------- actions
\* The print button while isPrinting: onClick = stopPrint.
ClickStop ==
    /\ PrintButtonEnabled
    /\ isPrinting
    /\ Commit(stopPrint(Begin("stopPrint"), writeCharacteristic, isSimulationMode))

\* The print button while not isPrinting: onClick = handlePrint.
ClickPrint ==
    /\ PrintButtonEnabled
    /\ ~isPrinting
    /\ (~isSimulationMode /\ writeCharacteristic # 0) => Len(printWrites) < MaxPendingWrites
    /\ isSimulationMode => Cardinality(timers) < MaxTimers
    /\ Commit(handlePrint(Begin("handlePrint")))

\* `await writeCharacteristic.writeValue(command.buffer)` settles.
PrintWriteSettled ==
    \E k \in 1..Len(printWrites), ok \in BOOLEAN :
        /\ ok => HandleLive(Cur, printWrites[k])
        /\ LET rest == [j \in 1..(Len(printWrites) - 1) |->
                            IF j < k THEN printWrites[j] ELSE printWrites[j + 1]]
           IN  Commit(IF ok
                      THEN [Begin("printWriteDone") EXCEPT !.printWrites = rest]
                      ELSE printWriteCatch([Begin("printWriteFailed") EXCEPT
                                                !.printWrites = rest]))

\* A timeout set by runSimulationStep fires.
SimulationTimerFires ==
    \E t \in SimTimersOf(Cur) :
        Commit(runSimulationStep(
                   [Begin("runSimulationStep") EXCEPT !.timers = @ \ {t}], t))

\* The interval set by handleTestPrint fires.
TestTimerFires ==
    \E t \in TestTimersOf(Cur) : Commit(testPrintTick(Begin("testPrintTick"), t))

ClickTestPrint ==
    /\ TestButtonEnabled
    /\ ~isTestPrinting => Cardinality(timers) < MaxTimers
    /\ Commit(handleTestPrint(Begin("handleTestPrint")))

ClickCalibration ==
    /\ CalibrationButtonEnabled
    /\ Commit(handleCalibration(Begin("handleCalibration")))

\* the simulation-mode checkbox
ToggleSimulationMode ==
    /\ isSimulationMode \in BOOLEAN
    /\ Commit([Begin("setIsSimulationMode") EXCEPT !.isSimulationMode = ~@])

\* handlePair up to `await navigator.bluetooth.requestDevice(...)`; the device
\* chooser is modal, so one call is in flight at a time.
ClickPair ==
    /\ PairButtonEnabled
    /\ pairJob.stage = "idle"
    /\ Len(disconnectListeners) < MaxPairings
    /\ Commit([Begin("handlePair") EXCEPT
                  !.pairJob = [stage |-> "requesting", wc |-> writeCharacteristic,
                               sim |-> isSimulationMode, hop |-> HopTriggerExpected(Cur)]])

\* requestDevice resolves: the listener is added and gatt.connect() is awaited.
PairDeviceChosen ==
    /\ pairJob.stage = "requesting"
    /\ Commit([Begin("pairDeviceChosen") EXCEPT
                  !.disconnectListeners = Append(@, [wc |-> pairJob.wc, sim |-> pairJob.sim]),
                  !.pairJob.stage = "connecting"])

\* requestDevice rejects (the user dismisses the chooser).
PairCancelled ==
    /\ pairJob.stage = "requesting"
    /\ Commit([Begin("pairFailed") EXCEPT
                  !.pairJob.stage = "idle",
                  !.toastError = "User cancelled the requestDevice() chooser."])

\* connect, getPrimaryService, getCharacteristic and startNotifications resolve.
PairConnected ==
    /\ pairJob.stage = "connecting"
    /\ LET g == IF gatt.connected THEN gatt
                ELSE [connected |-> TRUE, epoch |-> gatt.epoch + 1]
       IN  Commit([Begin("pairConnected") EXCEPT
                      !.gatt = g,
                      !.writeCharacteristic = g.epoch,
                      !.isConnected = TRUE,
                      !.notifyListeners = Append(@, pairJob.hop),
                      !.pairJob.stage = "idle"])

\* One of them rejects, before or after the GATT connection came up.
PairFailed ==
    /\ pairJob.stage = "connecting"
    /\ \E up \in BOOLEAN :
        Commit([Begin("pairFailed") EXCEPT
                   !.gatt = IF up /\ ~gatt.connected
                            THEN [connected |-> TRUE, epoch |-> gatt.epoch + 1]
                            ELSE gatt,
                   !.pairJob.stage = "idle",
                   !.toastError = "GATT operation failed"])

\* The device's gattserverdisconnected event.
DeviceDisconnected ==
    /\ gatt.connected
    /\ Commit(RunListeners([Begin("gattserverdisconnected") EXCEPT !.gatt.connected = FALSE],
                           disconnectListeners))

\* The device notifies on the notify characteristic (characteristicvaluechanged).
DeviceNotification ==
    /\ gatt.connected
    /\ notifyListeners # << >>
    /\ Commit(RunNotifyListeners(Begin("handleESP32Notification"), notifyListeners))

\* the Printing Mode buttons
SetPrintMode ==
    /\ printMode \in PrintModes
    /\ \E mode \in PrintModes \ {printMode} :
        Commit([Begin("setPrintMode") EXCEPT !.printMode = mode])

\* openProjectionWindow while the held connection is connected: terminate().
ClickCloseProjection ==
    /\ OpenButtonEnabled
    /\ RefConnected(Cur)
    /\ Commit(Begin("terminate"))

\* openProjectionWindow otherwise: a new PresentationRequest is started; the
\* browser rejects start() while an earlier start() is unsettled.
ClickOpenProjection ==
    /\ OpenButtonEnabled
    /\ ~RefConnected(Cur)
    /\ IF startPending # << >>
       THEN Commit([Begin("openProjectionWindow") EXCEPT
                       !.projectionWindowStatus = "Error",
                       !.toastError = "Failed to open projection window."])
       ELSE /\ Len(conns) < MaxConn
            /\ Commit([Begin("openProjectionWindow") EXCEPT
                          !.projectionWindowStatus = "Connecting...",
                          !.startPending = << [wc |-> writeCharacteristic,
                                               sim |-> isSimulationMode] >>])

\* request.onconnectionavailable: setupConnection(event.connection); the new
\* connection is in state 'connecting'.
ConnectionAvailable ==
    /\ startPending # << >>
    /\ Commit([Begin("setupConnection") EXCEPT
                  !.conns = Append(@, [state |-> "connecting",
                                       wc |-> startPending[1].wc,
                                       sim |-> startPending[1].sim]),
                  !.presentationConnectionRef = Len(conns) + 1,
                  !.projectionWindowStatus = "Connected",
                  !.startPending = << >>])

\* request.start() rejects.
StartRejected ==
    /\ startPending # << >>
    /\ \E name \in {"NotAllowedError", "NotFoundError"} :
        Commit(IF name # "NotAllowedError"
               THEN [Begin("startRejected") EXCEPT
                        !.projectionWindowStatus = "Error",
                        !.toastError = "Failed to open projection window.",
                        !.startPending = << >>]
               ELSE [Begin("startRejected") EXCEPT
                        !.projectionWindowStatus = "Disconnected",
                        !.startPending = << >>])

\* The connection reaches state 'connected' (no handler is registered).
ConnectionEstablished ==
    \E c \in 1..Len(conns) :
        /\ conns[c].state = "connecting"
        /\ Commit([Begin("connect") EXCEPT !.conns[c].state = "connected"])

\* The connection closes (onclose) or is terminated (onterminate).
ConnectionLeaves ==
    \E c \in 1..Len(conns), how \in {"closed", "terminated"} :
        /\ conns[c].state \in {"connecting", "connected"}
        /\ how = "terminated" => conns[c].state = "connected"
        /\ Commit(closeHandler([Begin("closeHandler") EXCEPT !.conns[c].state = how], c))

\* handleImportJob: the file input's onChange with a chosen file, one of
\* SessionArchives; a session loads one job.
ImportJobStart ==
    /\ importJob.stage = "idle"
    /\ slicingStatus = "idle"
    /\ \E a \in SessionArchives : Commit(importStart(Begin("handleImportJob"), a))

\* The same at any time, also while a slicing job is active.
ImportJobAnyTime ==
    /\ importJob.stage = "idle"
    /\ \E a \in SessionArchives : Commit(importStart(Begin("handleImportJob"), a))

\* The same with any of CodecArchives.
ImportAnyJobStart ==
    /\ importJob.stage = "idle"
    /\ \E a \in CodecArchives : Commit(importStart(Begin("handleImportJob"), a))

\* loadAsync and settingsFile.async("string") settle.
ImportJobSettings ==
    /\ importJob.stage = "loading"
    /\ Commit(importSettings(Begin("importSettings")))

\* Promise.all(imagePromises) settles.
ImportJobImages ==
    /\ importJob.stage = "reading"
    /\ Commit(importImages(Begin("importImages")))

\* the export button
ClickExportJob ==
    /\ ExportButtonEnabled
    /\ Commit(handleExportJob(Begin("handleExportJob")))

\* ---- slicing
StlFileName == [base |-> "part", ext |-> "stl"]

\* the STL file input's onChange: processFile with a .stl file or another file
UploadStl ==
    /\ stlFile \in BOOLEAN
    /\ \E file \in {StlFileName, [base |-> "part", ext |-> "txt"]} :
        Commit(processFile(Begin("processFile"), file, file.ext \in {"stl", "STL"}))

\* the Slice button
ClickSlice ==
    /\ SliceButtonEnabled
    /\ stlFile => Len(sliceJobs) < MaxSlices
    /\ Commit(handleSlice(Begin("handleSlice")))

StartOutcomes == {"ok", "network", "notOk", "noJobId"}

\* the start request of a submission settles
SliceStartSettles ==
    \E k \in 1..Len(sliceJobs), outcome \in StartOutcomes :
        /\ sliceJobs[k].stage = "pending"
        /\ Commit(sliceStartSettled(
                      Begin(IF outcome = "ok" THEN "sliceStarted" ELSE "sliceStartFailed"),
                      k, outcome))

\* the payloads the progress stream delivers
StreamEvents ==
    { [status |-> "processing", progress |-> 50, images |-> << >>, error |-> "", elapsed |-> 0],
      [status |-> "complete", progress |-> 100, images |-> [i \in 1..MaxImages |-> 20 + i],
       error |-> "", elapsed |-> 1],
      [status |-> "complete", progress |-> 100, images |-> [i \in 1..120 |-> 200 + i],
       error |-> "", elapsed |-> 2],
      [status |-> "failed", progress |-> 0, images |-> << >>, error |-> "mesh is empty",
       elapsed |-> 0],
      [status |-> "failed", progress |-> 0, images |-> << >>, error |-> "", elapsed |-> 0] }

\* an event arrives on an open progress stream
StreamMessage ==
    \E j \in 1..Len(streams), data \in StreamEvents :
        /\ streams[j].open
        /\ Commit(streamMessage(
                      Begin(CASE data.status = "complete" -> "streamComplete"
                              [] data.status = "failed" -> "streamFailed"
                              [] OTHER -> "streamMessage"),
                      j, data))

\* the connection of an open progress stream fails
StreamError ==
    \E j \in 1..Len(streams) :
        /\ streams[j].open
        /\ Commit(streamError(Begin("streamError"), j))

\* Voxel Size slider
SetVoxelSize ==
    \E val \in {1, 2} \ {slicingParams.voxelSize} :
        Commit([Begin("setSlicingParams") EXCEPT !.slicingParams.voxelSize = val])

\* Number of Projections slider
SetNumProjections ==
    \E val \in {120, 60} \ {slicingParams.numProjections} :
        Commit([Begin("setSlicingParams") EXCEPT !.slicingParams.numProjections = val])

\* Initial Rotation input (X)
SetRotX ==
    \E val \in {0, 90} \ {slicingParams.rotX} :
        Commit([Begin("setSlicingParams") EXCEPT !.slicingParams.rotX = val])

\* ---- the projection page
\* what a connection may deliver to the page
ReceivedData ==
    LET none == JsonOther("missing")
        img == JsonString(DataUrl(21))
        params(kind, tx) ==
            [kind |-> kind, scale |-> JsonNumber(RatOfInt(150)), translateX |-> tx,
             translateY |-> JsonNumber(RatOfInt(-3)), contrast |-> JsonNumber(RatOfInt(120))]
    IN  { MessageData("invalid", "", none, none, NoParams),
          MessageData("null", "", none, none, NoParams),
          MessageData("scalar", "", none, none, NoParams),
          MessageData("object", "", none, none, NoParams),
          MessageData("object", "PING", img, JsonBoolean(TRUE), NoParams),
          MessageData("object", "UPDATE_IMAGE", img, none, NoParams),
          MessageData("object", "UPDATE_IMAGE", none, none, NoParams),
          MessageData("object", "CLEAR_IMAGE", none, none, NoParams),
          MessageData("object", "TOGGLE_CALIBRATION", none, JsonBoolean(TRUE), NoParams),
          MessageData("object", "TOGGLE_CALIBRATION", none, JsonBoolean(FALSE), NoParams),
          MessageData("object", "TOGGLE_CALIBRATION", none, none, NoParams),
          MessageData("object", "UPDATE_ALIGNMENT", none, none,
                      params("object", JsonNumber(RatOfInt(5)))),
          MessageData("object", "UPDATE_ALIGNMENT", none, none, params("object", none)),
          MessageData("object", "UPDATE_ALIGNMENT", none, none,
                      params("null", JsonNumber(RatOfInt(5)))),
          MessageData("object", "UPDATE_ALIGNMENT", none, none, NoParams) }

\* a message event on the page of a connected connection
ReceiverMessage ==
    /\ projectionViews.observed
    /\ \E c \in 1..Len(conns), data \in ReceivedData :
        /\ conns[c].state = "connected"
        /\ Commit([Begin("onmessage") EXCEPT
                      !.projectionViews.views[c] = onmessage(@, data),
                      !.projectionViews.handled =
                          [conn |-> c, before |-> projectionViews.views[c], data |-> data]])

\* ---- calibration and alignment
\* the values the operator gives a member of AlignmentParams through its
\* SliderInput; clearing the number box gives parseFloat('') = NaN
AlignmentInputs(field) ==
    CASE field = "scale" -> {RatOfInt(100), RatOfInt(150)}
      [] field = "translateX" -> {RatOfInt(0), RatOfInt(5), NaN}
      [] field = "translateY" -> {RatOfInt(0), RatOfInt(-3)}
      [] field = "contrast" -> {RatOfInt(100), RatOfInt(120)}

\* a SliderInput of the Advanced tab: setAlignmentParams(p => ({ ...p, [field]: val })).
\* The number box is cleared with the keyboard, whose keydown events
\* handleKeyDown cancels while isCalibrating.
SetAlignment ==
    \E field \in DOMAIN alignmentParams :
        \E val \in AlignmentInputs(field) \ {alignmentParams[field]} :
            /\ val = NaN => ~isCalibrating
            /\ Commit(alignmentEffect(
                          [Begin("setAlignmentParams") EXCEPT !.alignmentParams[field] = val]))

\* a keydown event on the window; nudges are followed one step away from the
\* offsets the sliders give
KeyDown ==
    /\ alignmentParams.translateX \in AlignmentInputs("translateX")
    /\ alignmentParams.translateY \in AlignmentInputs("translateY")
    /\ \E key \in {"ArrowUp", "ArrowDown", "ArrowLeft", "ArrowRight", "a"},
          shiftKey \in BOOLEAN, ctrlKey \in BOOLEAN :
            Commit(handleKeyDown(Begin("handleKeyDown"), key, shiftKey, ctrlKey))

\* handleDragStart of SlicePreview (mousedown / touchstart on the image)
DragStart ==
    /\ hasSlices
    /\ alignmentParams.translateX \in AlignmentInputs("translateX")
    /\ alignmentParams.translateY \in AlignmentInputs("translateY")
    /\ Commit([Begin("handleDragStart") EXCEPT
                  !.drag = [isDragging |-> TRUE,
                            initialTranslate |-> << alignmentParams.translateX,
                                                    alignmentParams.translateY >>]])

\* mousemove / touchmove over the preview
DragMove ==
    /\ hasSlices
    /\ \E d \in {<< 6, 0 >>, << 0, -3 >>} :
        Commit(handleDragMove(Begin("handleDragMove"), d[1], d[2]))

\* handleDragEnd (mouseup, mouseleave, touchend)
DragEnd ==
    /\ hasSlices
    /\ drag.isDragging
    /\ Commit([Begin("handleDragEnd") EXCEPT !.drag.isDragging = FALSE])

\* the Save Offset button, rendered while isCalibrating
ClickSaveOffset ==
    /\ isCalibrating
    /\ Commit(handleSaveOffset(Begin("handleSaveOffset")))

\* the Reset Offset button, rendered while isCalibrating
ClickResetOffset ==
    /\ isCalibrating
    /\ Commit(handleResetOffset(Begin("handleResetOffset")))

\* the operator reloads the page: a new App, with the origin's storage
ReloadPage ==
    /\ lastOp # "init"
    /\ Commit(Mounted(localStorage))

\* what the origin's storage may hold under the key when the page is loaded
StoredItems ==
    { NoItem,
      StoredItem("empty", JsonOther("missing"), JsonOther("missing")),
      StoredItem("malformed", JsonOther("missing"), JsonOther("missing")),
      StoredItem("null", JsonOther("missing"), JsonOther("missing")),
      StoredItem("scalar", JsonOther("missing"), JsonOther("missing")),
      StoredItem("object", JsonNumber(RatOfInt(5)), JsonNumber(RatOfInt(-3))),
      StoredItem("object", JsonNumber(RatOfInt(5)), JsonOther("null")),
      StoredItem("object", JsonOther("string"), JsonNumber(RatOfInt(-3))),
      StoredItem("object", JsonNumber(RatOfInt(5)), JsonOther("missing")) }

\* ---- parameter inputs
RotationSpeeds == {30, 7}
TotalRotations == {360, 90}
VerticalStepses == {0, 1000}
VerticalDelays == {1000, 100}

\* Rotation Speed slider (shown in the velocity and hops modes)
SetRotationSpeed ==
    /\ printMode \in {"velocity", "hops"}
    /\ \E val \in RotationSpeeds \ {projectionParams.rotationSpeed} :
        Commit([Begin("setProjectionParams") EXCEPT !.projectionParams.rotationSpeed = val])

\* Total Rotation slider
SetTotalRotation ==
    \E val \in TotalRotations \ {projectionParams.totalRotation} :
        Commit([Begin("setProjectionParams") EXCEPT !.projectionParams.totalRotation = val])

\* Vertical Steps slider (admin)
SetVerticalSteps ==
    \E val \in VerticalStepses \ {projectionParams.verticalSteps} :
        Commit([Begin("setProjectionParams") EXCEPT !.projectionParams.verticalSteps = val])

\* Vertical Delay slider (admin)
SetVerticalDelay ==
    \E val \in VerticalDelays \ {projectionParams.verticalDelay} :
        Commit([Begin("setProjectionParams") EXCEPT !.projectionParams.verticalDelay = val])

\* Vertical Direction button (admin)
ToggleVerticalDirection ==
    /\ projectionParams.verticalDirection \in {0, 1}
    /\ Commit([Begin("setProjectionParams") EXCEPT
               !.projectionParams.verticalDirection = IF @ = 1 THEN 0 ELSE 1])

\* --------------------------------------------------------- specifications
\* A session: pairing, the projection channel, printing, test playback,
\* calibration, with an imported job as the ImageSet.
Next ==
    \/ ImportJobStart
    \/ ImportJobSettings
    \/ ImportJobImages
    \/ ClickPair
    \/ PairDeviceChosen
    \/ PairCancelled
    \/ PairConnected
    \/ PairFailed
    \/ DeviceDisconnected
    \/ ClickOpenProjection
    \/ ClickCloseProjection
    \/ ConnectionAvailable
    \/ StartRejected
    \/ ConnectionEstablished
    \/ ConnectionLeaves
    \/ ToggleSimulationMode
    \/ ClickPrint
    \/ ClickStop
    \/ PrintWriteSettled
    \/ SimulationTimerFires
    \/ ClickTestPrint
    \/ TestTimerFires
    \/ ClickCalibration

Spec == Init /\ [][Next]_vars

\* Real-hardware printing with the operator changing the projection settings.
NextCmd ==
    \/ ImportJobStart
    \/ ImportJobSettings
    \/ ImportJobImages
    \/ ClickPair
    \/ PairDeviceChosen
    \/ PairConnected
    \/ DeviceDisconnected
    \/ SetRotationSpeed
    \/ SetTotalRotation
    \/ SetVerticalSteps
    \/ SetVerticalDelay
    \/ ToggleVerticalDirection
    \/ ClickPrint
    \/ ClickStop
    \/ PrintWriteSettled

SpecCmd == Init /\ [][NextCmd]_vars

\* Slicing while the operator prints on the paired device.
NextSlicePrint ==
    \/ UploadStl
    \/ ClickSlice
    \/ SliceStartSettles
    \/ StreamMessage
    \/ StreamError
    \/ ClickPair
    \/ PairDeviceChosen
    \/ PairConnected
    \/ ClickPrint
    \/ ClickStop
    \/ PrintWriteSettled

SpecSlicePrint == Init /\ [][NextSlicePrint]_vars

\* Job files: export, and import of well-formed, reordered and broken archives.
NextCodec ==
    \/ ImportAnyJobStart
    \/ ImportJobSettings
    \/ ImportJobImages
    \/ ClickExportJob

SpecCodec == Init /\ [][NextCodec]_vars

\* Slicing: uploads, submissions, the progress streams and job imports.
NextSlice ==
    \/ UploadStl
    \/ ClickSlice
    \/ SliceStartSettles
    \/ StreamMessage
    \/ StreamError
    \/ ImportJobAnyTime
    \/ ImportJobSettings
    \/ ImportJobImages

SpecSlice == Init /\ [][NextSlice]_vars

\* Slicing with the operator changing the slicing parameters.
NextSliceParams ==
    \/ UploadStl
    \/ ClickSlice
    \/ SliceStartSettles
    \/ StreamMessage
    \/ StreamError
    \/ SetVoxelSize
    \/ SetNumProjections
    \/ SetRotX

SpecSliceParams == Init /\ [][NextSliceParams]_vars

\* Real-hardware printing in the three print modes, with device notifications.
NextHops ==
    \/ ImportJobStart
    \/ ImportJobSettings
    \/ ImportJobImages
    \/ ClickPair
    \/ PairDeviceChosen
    \/ PairConnected
    \/ DeviceDisconnected
    \/ DeviceNotification
    \/ SetPrintMode
    \/ ClickPrint
    \/ ClickStop
    \/ PrintWriteSettled

SpecHops == Init /\ [][NextHops]_vars

\* Print timing: a session that is ready to print (an ImageSet sliced from an
\* uploaded mesh, and either a paired device or a connected projection
\* window with the simulation flag set), for the values the timing inputs
\* accept.
SliderSpeeds == 1..100      \* Rotation Speed slider, min={1} max={100}

SlicedImages(n) == [i \in 1..n |-> DataUrl(20 + i)]

InitTiming ==
    \* -5 and 0 are speeds the number box of the slider also accepts
    \E sim \in BOOLEAN, mode \in PrintModes, tpf \in {16, 100},
       tr \in TotalRotations, rs \in SliderSpeeds \cup {-5, 0}, n \in {1, 2, 120} :
        /\ sim => rs \in {1, 7, 30, 100}
        /\ ~sim => n = 1 /\ mode = "velocity" /\ tpf = DefaultTimePerFrame
        /\ slicingParams = DefaultSlicingParams
        /\ projectionParams = [DefaultProjectionParams EXCEPT !.totalRotation = tr,
                                                              !.rotationSpeed = rs]
        /\ alignmentParams = DefaultAlignmentParams
        /\ fileName = StlFileName
        /\ stlFile = TRUE
        /\ projectionImages = SlicedImages(n)
        /\ slicingStatus = "complete"
        /\ slicingStats = [time |-> 1, count |-> n]
        /\ isPrinting = FALSE
        /\ isWaitingForHopTrigger = FALSE
        /\ printMode = mode
        /\ timePerFrame = tpf
        /\ isTestPrinting = FALSE
        /\ isCalibrating = FALSE
        /\ isSimulationMode = sim
        /\ isConnected = ~sim
        /\ writeCharacteristic = IF sim THEN 0 ELSE 1
        /\ projectionWindowStatus = IF sim THEN "Connected" ELSE "Disconnected"
        /\ presentationConnectionRef = IF sim THEN 1 ELSE 0
        /\ printProcessRef = [currentFrame |-> 0, intervalId |-> 0, timeoutId |-> 0]
        /\ testPrintIntervalRef = 0
        /\ timers = {}
        /\ gatt = IF sim THEN [connected |-> FALSE, epoch |-> 0]
                  ELSE [connected |-> TRUE, epoch |-> 1]
        /\ pairJob = [stage |-> "idle", wc |-> 0, sim |-> FALSE, hop |-> FALSE]
        /\ disconnectListeners = IF sim THEN << >> ELSE << [wc |-> 0, sim |-> FALSE] >>
        /\ printWrites = << >>
        /\ conns = IF sim THEN << [state |-> "connected", wc |-> 0, sim |-> FALSE] >>
                   ELSE << >>
        /\ startPending = << >>
        /\ importJob = [stage |-> "idle", archive |-> NoArchive, loaded |-> << >>,
                        before |-> << >>]
        /\ savedArchive = NoArchive
        /\ slicingProgress = 100
        /\ slicingStatusMessage = ""
        /\ eventSourceRef = 0
        /\ sliceJobs = << [stage |-> "streaming"] >>
        /\ streams = << [open |-> FALSE, job |-> 1] >>
        /\ notifyListeners = IF sim THEN << >> ELSE << FALSE >>
        /\ localStorage = NoItem
        /\ drag = NoDrag
        /\ projectionViews = NotObserved
        /\ lastOp = "init"
        /\ sent = << >>
        /\ written = << >>
        /\ threw = FALSE
        /\ toastError = ""
        /\ stopCalls = << >>
        /\ probe = [n |-> 0, i |-> 0, position |-> -1]

NextTiming ==
    \/ ClickPrint
    \/ ClickStop
    \/ PrintWriteSettled
    \/ SimulationTimerFires

SpecTiming == InitTiming /\ [][NextTiming]_vars

\* A print that nothing interrupts; the browser runs every timeout that is due.
NextRun ==
    \/ ClickPrint
    \/ SimulationTimerFires

\* the operator has chosen simulation mode; the long ImageSet runs at one setting
InitRun ==
    /\ InitTiming
    /\ isSimulationMode
    /\ Len(projectionImages) > MaxImages
            => printMode = "velocity" /\ projectionParams.rotationSpeed = 30

SpecRun == InitRun /\ [][NextRun]_vars /\ WF_vars(SimulationTimerFires)

\* Test playback over a connected projection channel.
NextTest ==
    \/ ClickTestPrint
    \/ TestTimerFires
    \/ ClickCalibration
    \/ ConnectionLeaves
    \/ ClickOpenProjection
    \/ ConnectionAvailable
    \/ ConnectionEstablished

SpecTest == InitRun /\ [][NextTest]_vars

\* The first render of App with the receiving pages followed.
InitObserved ==
    /\ InitApp
    /\ projectionViews = [NotObserved EXCEPT !.observed = TRUE]
    /\ probe = [n |-> 0, i |-> 0, position |-> -1]

\* The page of one projection connection and what the connection delivers.
NextReceiver ==
    \/ (conns = << >> /\ ClickOpenProjection)
    \/ ConnectionAvailable
    \/ ConnectionEstablished
    \/ ConnectionLeaves
    \/ ClickCalibration
    \/ ReceiverMessage

SpecReceiver == InitObserved /\ [][NextReceiver]_vars

\* The controller and the page it projects on: what the page shows after
\* every task of the controller.
NextViews ==
    \/ ClickOpenProjection
    \/ ConnectionAvailable
    \/ ConnectionEstablished
    \/ ConnectionLeaves
    \/ ClickCalibration
    \/ ImportJobStart
    \/ ImportJobSettings
    \/ ImportJobImages
    \/ ClickTestPrint
    \/ TestTimerFires
    \/ ToggleSimulationMode
    \/ ClickPrint
    \/ ClickStop
    \/ SimulationTimerFires

SpecViews == InitObserved /\ [][NextViews]_vars

\* The controller's alignment and the page it projects on.
NextViewAlign ==
    \/ ClickOpenProjection
    \/ ConnectionAvailable
    \/ ConnectionEstablished
    \/ ConnectionLeaves
    \/ SetAlignment

SpecViewAlign == InitObserved /\ [][NextViewAlign]_vars

\* Alignment: the projection channel, calibration and every way of changing
\* AlignmentParams while the page lives.
NextAlign ==
    \* the job is imported before the operator touches the alignment
    \/ (alignmentParams = DefaultAlignmentParams /\ ImportJobStart)
    \/ ImportJobSettings
    \/ ImportJobImages
    \/ ClickOpenProjection
    \/ ConnectionAvailable
    \/ ConnectionEstablished
    \/ ClickCalibration
    \/ SetAlignment
    \/ KeyDown
    \/ DragStart
    \/ DragMove
    \/ DragEnd
    \/ ClickResetOffset

SpecAlign == Init /\ [][NextAlign]_vars

\* The persisted calibration offset: pages loaded over whatever the origin's
\* storage holds, saving, resetting and reloading.
InitOffset ==
    \E item \in StoredItems :
        /\ slicingParams = Mounted(item).slicingParams
        /\ projectionParams = Mounted(item).projectionParams
        /\ alignmentParams = Mounted(item).alignmentParams
        /\ fileName = Mounted(item).fileName
        /\ stlFile = Mounted(item).stlFile
        /\ projectionImages = Mounted(item).projectionImages
        /\ slicingStatus = Mounted(item).slicingStatus
        /\ slicingStats = Mounted(item).slicingStats
        /\ isPrinting = Mounted(item).isPrinting
        /\ isWaitingForHopTrigger = Mounted(item).isWaitingForHopTrigger
        /\ printMode = Mounted(item).printMode
        /\ timePerFrame = Mounted(item).timePerFrame
        /\ isTestPrinting = Mounted(item).isTestPrinting
        /\ isCalibrating = Mounted(item).isCalibrating
        /\ isSimulationMode = Mounted(item).isSimulationMode
        /\ isConnected = Mounted(item).isConnected
        /\ writeCharacteristic = Mounted(item).writeCharacteristic
        /\ projectionWindowStatus = Mounted(item).projectionWindowStatus
        /\ presentationConnectionRef = Mounted(item).presentationConnectionRef
        /\ printProcessRef = Mounted(item).printProcessRef
        /\ testPrintIntervalRef = Mounted(item).testPrintIntervalRef
        /\ timers = Mounted(item).timers
        /\ gatt = Mounted(item).gatt
        /\ pairJob = Mounted(item).pairJob
        /\ disconnectListeners = Mounted(item).disconnectListeners
        /\ printWrites = Mounted(item).printWrites
        /\ conns = Mounted(item).conns
        /\ startPending = Mounted(item).startPending
        /\ importJob = Mounted(item).importJob
        /\ savedArchive = Mounted(item).savedArchive
        /\ slicingProgress = Mounted(item).slicingProgress
        /\ slicingStatusMessage = Mounted(item).slicingStatusMessage
        /\ eventSourceRef = Mounted(item).eventSourceRef
        /\ sliceJobs = Mounted(item).sliceJobs
        /\ streams = Mounted(item).streams
        /\ notifyListeners = Mounted(item).notifyListeners
        /\ localStorage = Mounted(item).localStorage
        /\ drag = Mounted(item).drag
        /\ projectionViews = Mounted(item).projectionViews
        /\ lastOp = Mounted(item).lastOp
        /\ sent = Mounted(item).sent
        /\ written = Mounted(item).written
        /\ threw = Mounted(item).threw
        /\ toastError = Mounted(item).toastError
        /\ stopCalls = Mounted(item).stopCalls
        /\ probe = Mounted(item).probe

NextOffset ==
    \/ ClickOpenProjection
    \/ ConnectionAvailable
    \/ ConnectionEstablished
    \/ ClickCalibration
    \/ SetAlignment
    \/ ClickSaveOffset
    \/ ClickResetOffset
    \/ ReloadPage

SpecOffset == InitOffset /\ [][NextOffset]_vars

\* Entry names: where import places image i of an exported set of n images.
ProbeLengths == {1, 2, 10, 11, 100, 101, 1000, 1001, 10000, 10001}
ProbeIndexes == {0, 1, 9, 10, 99, 100, 999, 1000, 1001, 9999, 10000}

InitNames ==
    /\ InitApp
    /\ projectionViews = NotObserved
    /\ probe \in {pr \in [n : ProbeLengths, i : ProbeIndexes, position : {-1}] : pr.i < pr.n}

\* Export of n images followed by import: the place of image i after the sort.
ProbeImport ==
    /\ probe.position = -1
    /\ Commit([Begin("probeImport") EXCEPT
                  !.probe.position = SortedPosition(probe.n, probe.i)])

NextNames == ProbeImport

SpecNames == InitNames /\ [][NextNames]_vars
\* ------------------------------------------------------------------ claims
\* C1 (as stated): in every reachable state at most one of isPrinting,
\* isTestPrinting and isCalibrating is true.
C1_AtMostOneSession ==
    /\ ~(isPrinting /\ isTestPrinting)
    /\ ~(isPrinting /\ isCalibrating)
    /\ ~(isTestPrinting /\ isCalibrating)

\* C2 (as stated): a stopPrint call that starts with isPrinting false and no
\* pending timer writes nothing to the device, sends nothing on the
\* projection channel, raises no error, and leaves isPrinting false.
C2_StopFromIdleIsSilent ==
    /\ \A k \in 1..Len(stopCalls) :
        stopCalls[k].idle =>
            stopCalls[k].wrote = 0 /\ stopCalls[k].sent = 0 /\ ~stopCalls[k].threw
    /\ (stopCalls # << >> /\ stopCalls[Len(stopCalls)].idle) => ~isPrinting

\* C3 (as stated): the gattserverdisconnected task that starts with
\* isPrinting true ends with isPrinting and isWaitingForHopTrigger false, no
\* frame timer pending, isConnected false and the write handle null.
C3_DisconnectStopsPrint ==
    [][(isPrinting /\ lastOp' = "gattserverdisconnected")
        => /\ ~isPrinting'
           /\ ~isWaitingForHopTrigger'
           /\ SimTimersOf(Cur') = {}
           /\ ~isConnected'
           /\ writeCharacteristic' = 0]_vars

\* C4 (as stated): the close handler of the projection channel ends with
\* isPrinting, isTestPrinting and isCalibrating false, with no print timeout
\* and no test interval pending, and with no reference kept to a channel
\* that has closed.
C4_CloseStopsEverySession ==
    lastOp = "closeHandler"
        => /\ ~isPrinting /\ ~isTestPrinting /\ ~isCalibrating
           /\ timers = {}
           /\ presentationConnectionRef # 0
                => conns[presentationConnectionRef].state \in {"connecting", "connected"}

\* C5 (as stated): at most one timer is pending; a simulation timeout is
\* pending only while isPrinting and a test interval only while
\* isTestPrinting; no simulation timeout is pending after stopPrint and no
\* test interval after stopTestPrint.
C5_TimerDiscipline ==
    /\ Cardinality(timers) <= 1
    /\ SimTimersOf(Cur) # {} => isPrinting
    /\ TestTimersOf(Cur) # {} => isTestPrinting
    /\ stopCalls # << >> => SimTimersOf(Cur) = {}

\* C6: handleCalibration started while isTestPrinting cancels the interval,
\* clears isTestPrinting and sends exactly CLEAR_IMAGE and then
\* TOGGLE_CALIBRATION, with no UPDATE_IMAGE after the toggle.
C6_CalibrationStopsPlaybackFirst ==
    [][(isTestPrinting /\ lastOp' = "handleCalibration")
        => /\ ~isTestPrinting'
           /\ TestTimersOf(Cur') = {}
           /\ testPrintIntervalRef' = 0
           /\ Len(sent') = 2
           /\ sent'[1].msg = ClearImage
           /\ sent'[2].msg = ToggleCalibration(isCalibrating')
           /\ isCalibrating' = ~isCalibrating]_vars

C6_Witness ==
    /\ lastOp = "handleCalibration"
    /\ Len(sent) = 2
    /\ sent[1].msg = ClearImage
    /\ sent[2].msg = ToggleCalibration(TRUE)
    /\ isCalibrating
\* C7 (as stated): import of an exported archive yields the images in the
\* exported order, for an ImageSet of any length: image i of n is placed at
\* position i.
C7_RoundTripKeepsOrder ==
    probe.position # -1 => probe.position = probe.i

\* C8 (as stated): after a failed import the three parameter records, the
\* ImageSet, the file name, the mesh and the slicing status are what they
\* were when the import started.
C8_FailedImportChangesNothing ==
    lastOp = "importFailed" => Snapshot(Cur) = importJob.before[1]

\* C9 (as stated): an import of an archive with a readable settings entry
\* and no image entry under projections/ fails; slicingStatus is never
\* 'complete' with an empty ImageSet.
C9_ImportNeedsImages ==
    /\ (/\ lastOp \in {"importImages", "importFailed"}
        /\ importJob.archive.zipOk
        /\ importJob.archive.settings.kind = "ok"
        /\ ImageEntries(importJob.archive) = << >>)
            => lastOp = "importFailed"
    /\ slicingStatus = "complete" => projectionImages # << >>

\* C10: every buffer written to the device holds six float32 values; the
\* one handlePrint writes is [totalRotation, tomographicDelayMs,
\* pauseAfterRotation / 1000, verticalSteps, verticalDelay, verticalDirection]
\* of the current projectionParams, and every other one is six zeros.
C10_CommandLayout ==
    LET pp == projectionParams
        tomographicDelayMs == IF pp.rotationSpeed > 0
                              THEN Rat(9 * 1000, 80 * pp.rotationSpeed)
                              ELSE RatOfInt(0)
        printLayout == << ToFloat32(RatOfInt(pp.totalRotation)),
                          ToFloat32(tomographicDelayMs),
                          ToFloat32(Rat(pp.pauseAfterRotation, 1000)),
                          ToFloat32(RatOfInt(pp.verticalSteps)),
                          ToFloat32(RatOfInt(pp.verticalDelay)),
                          ToFloat32(RatOfInt(pp.verticalDirection)) >>
        zeros == << << 0, 1 >>, << 0, 1 >>, << 0, 1 >>, << 0, 1 >>, << 0, 1 >>, << 0, 1 >> >>
    IN  \A k \in 1..Len(written) :
            /\ Len(written[k].cmd) = 6
            /\ IF lastOp = "handlePrint"
               THEN written[k].cmd = printLayout
               ELSE written[k].cmd = zeros

C10_Witness ==
    /\ lastOp = "handlePrint"
    /\ Len(written) = 1
    /\ projectionParams.rotationSpeed = 7
    /\ projectionParams.pauseAfterRotation = 500
    /\ written[1].cmd[2] = << 8426057, 524288 >>
    /\ written[1].cmd[3] = << 1, 2 >>

\* x < y for two positive float32 values (their denominators are powers of two)
C11_Less(x, y) ==
    IF x[2] >= y[2] THEN x[1] \div (x[2] \div y[2]) < y[1]
    ELSE x[1] <= (y[1] - 1) \div (y[2] \div x[2])

\* C11: the second value of the command handlePrint writes is the float32 of
\* (0.1125 / rotationSpeed) * 1000 when rotationSpeed > 0 and is 0 when
\* rotationSpeed <= 0; over the speeds of the Rotation Speed slider it is
\* strictly smaller for every larger speed.
C11_TomographicDelay ==
    (lastOp = "handlePrint" /\ ~isSimulationMode /\ written # << >>)
        => LET rs == projectionParams.rotationSpeed
               d == written[1].cmd[2]
           IN  /\ rs > 0 => d = ToFloat32(Rat(1125 * 1000, 10000 * rs))
               /\ rs <= 0 => d = << 0, 1 >>
               /\ rs > 0 =>
                    \A r \in SliderSpeeds :
                        r > rs => C11_Less(
                            PrintCommand([projectionParams EXCEPT !.rotationSpeed = r])[2], d)

C11_Witness ==
    /\ lastOp = "handlePrint"
    /\ ~isSimulationMode
    /\ projectionParams.rotationSpeed = 99
    /\ written # << >>
    /\ written[1].cmd[2] = ToFloat32(<< 25, 22 >>)

\* C12: the timeout a simulated print schedules after a frame is timePerFrame
\* ms in time-per-frame mode and (totalRotation / frameCount) / rotationSpeed
\* * 1000 ms in velocity and in hops mode, frameCount being the length of the
\* ImageSet.
C12_SimulationDelay ==
    \A t \in SimTimersOf(Cur) :
        t.delay = IF printMode = "time-per-frame" THEN << timePerFrame, 1 >>
                  ELSE Rat(projectionParams.totalRotation * 1000,
                           Len(projectionImages) * projectionParams.rotationSpeed)

\* 120 images at 30 deg/s over 360 deg: 100 ms
C12_Witness ==
    /\ Len(projectionImages) = 120
    /\ printMode = "velocity"
    /\ timePerFrame = 16
    /\ projectionParams.rotationSpeed = 30
    /\ projectionParams.totalRotation = 360
    /\ printProcessRef.currentFrame = 60
    /\ \E t \in SimTimersOf(Cur) : t.delay = << 100, 1 >>

\* C13: a handlePrint call makes isPrinting true only when the ImageSet is
\* nonempty and, with the simulation flag off, the device is connected
\* (isConnected, with a write handle), or, with the flag on, the held
\* projection connection is connected; a call made when this does not hold
\* leaves isPrinting false, writes nothing and sends nothing.
C13_PrintPrecondition ==
    LET ready == /\ Len(projectionImages) > 0
                 /\ IF isSimulationMode THEN RefConnected(Cur)
                    ELSE isConnected /\ writeCharacteristic # 0
    IN  lastOp = "handlePrint"
            => /\ isPrinting => ready
               /\ ~ready => ~isPrinting /\ written = << >> /\ sent = << >>

C13_Witness ==
    /\ lastOp = "handlePrint"
    /\ isSimulationMode
    /\ Len(projectionImages) > 0
    /\ ~RefConnected(Cur)
    /\ presentationConnectionRef # 0
    /\ ~isPrinting
    /\ toastError = "Connect to second monitor for simulation."

C15_HopsWaitForTrigger ==
    (lastOp = "printWriteDone" /\ isPrinting /\ printMode = "hops" /\ ~isSimulationMode)
        => isWaitingForHopTrigger

\* C16 (as stated): a stopPrint call that starts with isPrinting true leaves
\* isPrinting and isWaitingForHopTrigger false and no frame timeout pending;
\* it writes the zero command exactly when the device is connected and the
\* simulation flag is off, and sends CLEAR_IMAGE exactly when the held
\* projection connection is connected.
C16_StopFromActivePrint ==
    \A k \in 1..Len(stopCalls) :
        stopCalls[k].printing
            => /\ ~isPrinting
               /\ ~isWaitingForHopTrigger
               /\ SimTimersOf(Cur) = {}
               /\ stopCalls[k].wrote = 1 <=> (writeCharacteristic # 0 /\ ~isSimulationMode)
               /\ stopCalls[k].sent = 1 <=> RefConnected(Cur)

\* C17 (as stated): whenever slicingStatus is 'complete' or 'failed', no
\* progress stream the client opened is still open.
C17_TerminalStatusClosesStreams ==
    slicingStatus \in {"complete", "failed"}
        => \A j \in 1..Len(streams) : ~streams[j].open

\* C18 (as stated): at most one progress stream is open at any time.
C18_AtMostOneOpenStream ==
    Cardinality({j \in 1..Len(streams) : streams[j].open}) <= 1

\* C19 (as stated): while slicingStatus stays 'slicing', slicingParams does
\* not change.
C19_ParamsFrozenWhileSlicing ==
    [][(slicingStatus = "slicing" /\ slicingStatus' = "slicing")
        => slicingParams' = slicingParams]_vars

\* C20: when the start request of a submission fails (network error, non-OK
\* response, no job_id), slicingStatus becomes 'failed' with the error's
\* message as slicingStatusMessage and in an error toast, and no progress
\* stream is opened for that submission, then or later.
C20_FailedSubmissionNeverStreams ==
    /\ lastOp = "sliceStartFailed"
        => /\ slicingStatus = "failed"
           /\ slicingStatusMessage \in {StartFailureMessage(o) : o \in StartOutcomes \ {"ok"}}
           /\ toastError = "Slicing failed: " \o slicingStatusMessage
    /\ \A j \in 1..Len(streams) : sliceJobs[streams[j].job].stage = "streaming"
    /\ \A k \in 1..Len(sliceJobs) :
        sliceJobs[k].stage = "failed" => \A j \in 1..Len(streams) : streams[j].job # k

C20_Witness ==
    /\ lastOp = "sliceStartFailed"
    /\ slicingStatusMessage = "Did not receive a job_id from the server."
    /\ Len(sliceJobs) = 2
    /\ sliceJobs[1].stage = "streaming"
    /\ sliceJobs[2].stage = "failed"
    /\ Len(streams) = 1

\* the progress streams that are open in state s
OpenStreams(s) == {j \in 1..Len(s.streams) : s.streams[j].open}

\* C21: the onerror task of a progress stream sets slicingStatus to 'failed'
\* with the message "Connection to server lost.", shows an error toast and
\* closes that stream; it opens no stream and submits no job, and a stream is
\* only ever opened by a settled start request and a job only ever submitted
\* by the Slice button.
C21_StreamErrorFails ==
    [][/\ lastOp' = "streamError"
            => /\ slicingStatus' = "failed"
               /\ slicingStatusMessage' = "Connection to server lost."
               /\ toastError' = "Connection to slicing server lost."
               /\ eventSourceRef' = 0
               /\ OpenStreams(Cur') \subseteq OpenStreams(Cur)
               /\ Cardinality(OpenStreams(Cur')) = Cardinality(OpenStreams(Cur)) - 1
               /\ Len(streams') = Len(streams)
               /\ sliceJobs' = sliceJobs
       /\ Len(streams') > Len(streams) => lastOp' = "sliceStarted"
       /\ Len(sliceJobs') > Len(sliceJobs) => lastOp' = "handleSlice"]_vars

C21_Witness ==
    /\ lastOp = "streamError"
    /\ slicingStatus = "failed"
    /\ slicingStatusMessage = "Connection to server lost."
    /\ Len(sliceJobs) = 1
    /\ sliceJobs[1].stage = "streaming"
    /\ Len(streams) = 1
    /\ ~streams[1].open

\* C22: after the onmessage task of a frame with status 'complete' carrying
\* n images, slicingStatus is 'complete', projectionImages holds the data
\* URLs of exactly those n images in the order of the frame, and
\* slicingStats.count is n.
C22_CompleteFrameYieldsImageSet ==
    lastOp = "streamComplete"
        => \E data \in StreamEvents :
            /\ data.status = "complete"
            /\ data.elapsed = slicingStats.time
            /\ slicingStatus = "complete"
            /\ Len(projectionImages) = Len(data.images)
            /\ \A i \in 1..Len(data.images) : projectionImages[i] = DataUrl(data.images[i])
            /\ slicingStats.count = Len(data.images)

\* a 120-angle job
C22_Witness ==
    /\ lastOp = "streamComplete"
    /\ slicingStatus = "complete"
    /\ Len(projectionImages) = 120
    /\ projectionImages[1] = DataUrl(201)
    /\ projectionImages[120] = DataUrl(320)
    /\ slicingStats.count = 120

\* C23: a task that changes alignmentParams while the held projection
\* connection is connected sends exactly one message, UPDATE_ALIGNMENT with
\* the new values (as JSON writes them), on that connection; each change is
\* sent in the task that makes it, so the updates leave in the order of the
\* changes.
C23_AlignmentChangesBroadcast ==
    [][(alignmentParams' # alignmentParams /\ RefConnected(Cur) /\ RefConnected(Cur'))
        => sent' = << [conn |-> presentationConnectionRef',
                       msg |-> UpdateAlignment(alignmentParams')] >>]_vars

\* a drag of 6 px at scale 150 % while connected
C23_Witness ==
    /\ lastOp = "handleDragMove"
    /\ RefConnected(Cur)
    /\ alignmentParams.scale = RatOfInt(150)
    /\ alignmentParams.translateX = RatOfInt(4)
    /\ Len(sent) = 1
    /\ sent[1].msg.type = "UPDATE_ALIGNMENT"
    /\ sent[1].msg.params.translateX = JsonNumber(RatOfInt(4))

\* C24: on a freshly loaded page the load of the stored offset has raised
\* nothing; alignmentParams is the default with translateX and translateY
\* replaced when the stored item is a JSON object with numeric x and y, and
\* is the default otherwise.
C24_LoadNeverRaises ==
    lastOp = "init"
        => LET item == localStorage
               valid == item.kind = "object" /\ item.x.t = "number" /\ item.y.t = "number"
           IN  /\ ~threw
               /\ toastError = ""
               /\ alignmentParams =
                    IF valid
                    THEN [DefaultAlignmentParams EXCEPT !.translateX = item.x.v,
                                                        !.translateY = item.y.v]
                    ELSE DefaultAlignmentParams

\* a page reloaded over an item whose x is null
C24_Witness ==
    /\ lastOp = "init"
    /\ localStorage = StoredItem("object", JsonOther("null"), JsonNumber(RatOfInt(-3)))
    /\ alignmentParams = DefaultAlignmentParams

\* C25 (as stated): handleSaveOffset stores an object under the key such that
\* a page loaded over it has the translateX and translateY that were saved
\* and the default scale and contrast; the save changes no parameter.
C25_SaveLoadRoundTrip ==
    [][lastOp' = "handleSaveOffset"
        => LET restored == Mounted(localStorage').alignmentParams
           IN  /\ localStorage'.kind = "object"
               /\ restored.translateX = alignmentParams.translateX
               /\ restored.translateY = alignmentParams.translateY
               /\ restored.scale = DefaultAlignmentParams.scale
               /\ restored.contrast = DefaultAlignmentParams.contrast
               /\ alignmentParams' = alignmentParams]_vars

\* C26: handleResetOffset removes the stored item and sets translateX and
\* translateY to 0, leaving scale and contrast; a page loaded afterwards has
\* the default alignmentParams.
C26_ResetClearsOffset ==
    [][lastOp' = "handleResetOffset"
        => /\ localStorage' = NoItem
           /\ alignmentParams'.translateX = RatOfInt(0)
           /\ alignmentParams'.translateY = RatOfInt(0)
           /\ alignmentParams'.scale = alignmentParams.scale
           /\ alignmentParams'.contrast = alignmentParams.contrast
           /\ Mounted(localStorage').alignmentParams = DefaultAlignmentParams]_vars

C26_Witness ==
    /\ lastOp = "handleResetOffset"
    /\ localStorage = NoItem
    /\ alignmentParams = [DefaultAlignmentParams EXCEPT !.scale = RatOfInt(150),
                                                        !.contrast = RatOfInt(120)]
    /\ Len(sent) = 1

\* The connections of the projection channel that are connecting or connected.
OpenConnections(s) ==
    {c \in 1..Len(s.conns) : s.conns[c].state \in {"connecting", "connected"}}

\* C27 (as stated): at most one connection of the projection channel is open
\* at a time; openProjectionWindow called while the held connection is
\* connected terminates it and starts no new request; and the status reads
\* "Connected" exactly while the controller holds that connection.
C27_SingleProjectionConnection ==
    [][/\ Cardinality(OpenConnections(Cur')) <= 1
       /\ lastOp' = "terminate" => startPending' = startPending
       /\ projectionWindowStatus' = "Connected" <=> presentationConnectionRef' # 0]_vars

\* C28 (as stated): once the device's disconnect notification has been
\* handled, no later task writes a command to the handle that disconnect
\* invalidated, until a new pairing succeeds.
C28_NoWriteToInvalidatedHandle ==
    lastOp # "gattserverdisconnected"
        => \A k \in 1..Len(written) :
               ~(written[k].h = gatt.epoch /\ ~gatt.connected)

\* C29: when the write of the print command fails, the task that handles
\* the failure shows an error message and ends with isPrinting false; it
\* writes nothing to the device and leaves no write of its own pending.
C29_FailedPrintWriteIsSurfaced ==
    [][lastOp' = "printWriteFailed"
        => /\ toastError' = "Failed to send command"
           /\ ~isPrinting'
           /\ written' = << >>
           /\ Len(printWrites') = Len(printWrites) - 1
           /\ timers' = timers]_vars

\* A print command was written to a paired device and its write failed.
C29_Witness ==
    /\ lastOp = "printWriteFailed"
    /\ toastError = "Failed to send command"
    /\ ~isPrinting
    /\ ~isSimulationMode
    /\ printWrites = << >>

\* C30 (as stated): a progress frame with status "failed" that is handled
\* while a print session is active ends with the session stopped: isPrinting
\* and isWaitingForHopTrigger are both false.
C30_FailedFrameStopsPrint ==
    [][(isPrinting /\ lastOp' = "streamFailed")
        => (~isPrinting' /\ ~isWaitingForHopTrigger')]_vars

\* C31: in a simulated print that nothing interrupts, handlePrint sends the
\* image at index 0 and every later step sends the image at the index the
\* frame counter holds and advances the counter by one, with one timeout
\* pending; the step that finds the counter at n sends CLEAR_IMAGE, ends with
\* isPrinting false and no timer pending; and every such print reaches that
\* step.
C31_SimulatedPrintRun ==
    /\ [][(isSimulationMode /\ lastOp' \in {"handlePrint", "runSimulationStep"})
            => LET k == IF lastOp' = "handlePrint" THEN 0
                        ELSE printProcessRef.currentFrame
                   c == presentationConnectionRef
               IN  IF k < Len(projectionImages)
                   THEN /\ sent' = << [conn |-> c,
                                       msg |-> UpdateImage(projectionImages[k + 1])] >>
                        /\ printProcessRef'.currentFrame = k + 1
                        /\ isPrinting'
                        /\ Cardinality(timers') = 1
                   ELSE /\ sent' = << [conn |-> c, msg |-> ClearImage] >>
                        /\ ~isPrinting'
                        /\ printProcessRef'.timeoutId = 0
                        /\ timers' = {}]_vars
    /\ (isSimulationMode /\ isPrinting)
            ~> (/\ ~isPrinting
                /\ timers = {}
                /\ printProcessRef.currentFrame = Len(projectionImages)
                /\ sent = << [conn |-> presentationConnectionRef, msg |-> ClearImage] >>)

\* a simulated print of two images has run its stop step
C31_Witness ==
    /\ isSimulationMode
    /\ lastOp = "runSimulationStep"
    /\ Len(projectionImages) = 2
    /\ printProcessRef.currentFrame = 2
    /\ ~isPrinting
    /\ timers = {}
    /\ sent = << [conn |-> 1, msg |-> ClearImage] >>

C33_ReceiverMessageEffects ==
    lastOp = "onmessage"
        => LET data == projectionViews.handled.data
               view == projectionViews.handled.before
               next == projectionViews.views[projectionViews.handled.conn]
           IN  /\ (data.kind = "object" /\ data.type = "UPDATE_IMAGE")
                    => /\ ~CalibrationVisible(next)
                       /\ next.imageUrl = data.imageUrl
                       /\ next.transform = view.transform /\ next.filter = view.filter
               /\ (data.kind = "object" /\ data.type = "CLEAR_IMAGE")
                    => /\ ~CalibrationVisible(next)
                       /\ next.imageUrl.t = "null"
                       /\ next.transform = view.transform /\ next.filter = view.filter
               /\ (data.kind = "object" /\ data.type = "TOGGLE_CALIBRATION")
                    => /\ data.show.t = "boolean" => CalibrationVisible(next) = data.show.b
                       /\ next = [view EXCEPT !.showCalibration = next.showCalibration]
               /\ (data.kind = "object" /\ data.type = "UPDATE_ALIGNMENT")
                    => /\ (data.params.kind = "object" /\ data.params.translateX.t = "number")
                            => /\ next.transform =
                                    [scale |-> RatDiv(data.params.scale.v, << 100, 1 >>),
                                     translateX |-> data.params.translateX,
                                     translateY |-> data.params.translateY]
                               /\ next.filter = data.params.contrast
                       /\ next.imageUrl = view.imageUrl
                       /\ next.showCalibration = view.showCalibration

\* an image arrived while the calibration pattern was shown on a page whose
\* alignment had been set: the pattern is hidden, the alignment kept
C33_Witness ==
    /\ lastOp = "onmessage"
    /\ projectionViews.handled.data.type = "UPDATE_IMAGE"
    /\ projectionViews.handled.data.imageUrl.t = "string"
    /\ CalibrationVisible(projectionViews.handled.before)
    /\ projectionViews.handled.before.transform.scale = << 3, 2 >>
    /\ ~CalibrationVisible(projectionViews.views[1])
    /\ projectionViews.views[1].transform.scale = << 3, 2 >>

\* C34 (as stated): a received message that is not valid JSON, has an
\* unrecognised type or lacks the payload of its type leaves the image shown,
\* transform, filter and the visibility of the calibration pattern as they
\* were.
C34_MalformedMessageIgnored ==
    lastOp = "onmessage"
        => LET data == projectionViews.handled.data
               malformed ==
                   \/ data.kind # "object"
                   \/ data.type \notin {"UPDATE_IMAGE", "CLEAR_IMAGE", "TOGGLE_CALIBRATION",
                                        "UPDATE_ALIGNMENT"}
                   \/ data.type = "UPDATE_IMAGE" /\ data.imageUrl.t = "missing"
                   \/ data.type = "TOGGLE_CALIBRATION" /\ data.show.t = "missing"
                   \/ data.type = "UPDATE_ALIGNMENT"
                        /\ (data.params.kind # "object"
                            \/ \E m \in {"scale", "translateX", "translateY", "contrast"} :
                                   data.params[m].t = "missing")
               view == projectionViews.handled.before
               next == projectionViews.views[projectionViews.handled.conn]
           IN  malformed
                    => /\ next.imageUrl = view.imageUrl
                          \/ (next.imageUrl.t # "string" /\ view.imageUrl.t # "string")
                       /\ CalibrationVisible(next) = CalibrationVisible(view)
                       /\ next.transform = view.transform
                       /\ next.filter = view.filter

C36_RealPrintStopWritesZero ==
    [][(/\ isPrinting /\ ~isPrinting'
        /\ printProcessRef.currentFrame = 0
        /\ isConnected /\ gatt.connected /\ gatt'.connected
        /\ lastOp' \in {"stopPrint", "closeHandler"})
        => \E k \in 1..Len(written') :
              written'[k].cmd = StopCommand /\ written'[k].live]_vars

\* C37 (as stated): while the held projection connection is connected and
\* every message sent has been handled by the page, the page shows the
\* calibration pattern exactly when isCalibrating is true.
C37_CalibrationShownAsSet ==
    (projectionViews.observed /\ RefConnected(Cur))
        => CalibrationVisible(projectionViews.views[presentationConnectionRef])
               = isCalibrating

\* C38 (as stated): while the held projection connection is connected and
\* every message sent has been handled by the page, the page's transform and
\* filter are the ones built from the controller's AlignmentParams (for
\* AlignmentParams whose members are finite numbers).
C38_AlignmentShownAsSet ==
    (/\ projectionViews.observed /\ RefConnected(Cur)
     /\ \A m \in DOMAIN alignmentParams : alignmentParams[m][2] # 0)
        => LET view == projectionViews.views[presentationConnectionRef]
           IN  /\ view.transform =
                    [scale |-> RatDiv(alignmentParams.scale, << 100, 1 >>),
                     translateX |-> JsonNumber(alignmentParams.translateX),
                     translateY |-> JsonNumber(alignmentParams.translateY)]
               /\ view.filter = JsonNumber(alignmentParams.contrast)

\* C39 (as stated): the ImageSet is nonempty exactly when slicingStatus is
\* 'complete'.
C39_ImagesIffComplete ==
    (Len(projectionImages) > 0) <=> (slicingStatus = "complete")

\* C40 (as stated, for a page that has opened one projection connection): no
\* task calls send on a projection connection that is not in state
\* 'connected'; a call that does raises InvalidStateError.
C40_SendOnlyWhenConnected ==
    Len(conns) <= 1 => ~threw

====
